---- MODULE Spec2Model ----
(***************************************************************************)
(* Model of mini_firestore's asynchronous request multiplexer              *)
(* (Firestore / Firestore::OTFRequests in src/src/mini_firestore.cpp).     *)
(*                                                                         *)
(* One Firestore session is modelled.  The application is the environment: *)
(* whenever user code runs (at top level, or inside a completion callback  *)
(* that update() has invoked) it may call configure, disconnect, a submit  *)
(* (allocRequest) or update.  update() invokes callbacks synchronously, so *)
(* the call stack of suspended update() invocations is part of the state.  *)
(*                                                                         *)
(* The transport (libcurl multi interface) is an external collaborator:    *)
(* curl_multi_perform may complete any subset of the running transfers and *)
(* queues one CURLMSG_DONE message per completed transfer, a failing       *)
(* curl_multi_perform makes no progress, and curl_multi_info_read pops the *)
(* queue.  The response bytes of a transfer are first read by update()     *)
(* when it dispatches the transfer, so they are drawn at that point.       *)
(***************************************************************************)
EXTENDS Integers, Sequences, FiniteSets, TLC

\* ---------------------------------------------------------------- bounds
MaxTx == 2        \* transactions whose easy handle exists at one time
MaxId == 3        \* transactions one pool accepts (caps next_request_unique_id)
MaxDepth == 2     \* nesting of update() calls (update called from a callback)
MaxElems == 2     \* length of a response array
MaxBody == 2      \* bytes in a request body, and room in a transport buffer
MaxPieces == 2    \* pieces a response arrives in
MaxPulls == 4     \* calls the transport makes for the body of one request
MaxSubmits == 5   \* transactions one pool is given while one object is watched
MaxPath == 2      \* characters in a path or a subpath
MaxNest == 1      \* containers nested inside a field of a document
MaxLen == 1       \* length of an array of a document

\* ------------------------------------------------------------- constants
RPC_FLAG_CONNECT == 4
RPC_FLAG_TRACE == 2
ERR_AUTH_EMAIL_NOT_FOUND == 400
ERR_DOC_MISSING == 1

\* -------------------------------------------------- structured values
\* A parsed json value, as far as update() and the auth adapter look at it:
\* its type, the keys of an object, the elements of an array (each element
\* its type and keys), and error.code of an object that carries "error".
JElem(k, K) == [k |-> k, keys |-> K]
JNull == [k |-> "null", keys |-> {}, elems |-> <<>>, code |-> 0]
JString == [k |-> "string", keys |-> {}, elems |-> <<>>, code |-> 0]
JObject(K) ==
  [k |-> "object", keys |-> K, elems |-> <<>>,
   code |-> IF "error" \in K THEN ERR_AUTH_EMAIL_NOT_FOUND ELSE 0]
JArray(E) == [k |-> "array", keys |-> {}, elems |-> E, code |-> 0]
\* an object whose "error" carries the integer code c; c = 0 stands for an
\* "error" that has no integer "code" in it (remote codes are positive)
JFailure(c) == [k |-> "object", keys |-> {"error"}, elems |-> <<>>, code |-> c]
\* a remote code that is not the email-not-found code
ERR_OTHER == ERR_AUTH_EMAIL_NOT_FOUND + 1

Range(s) == { s[i] : i \in 1..Len(s) }

\* the json values of the model
Elems == { JElem("null", {}), JElem("object", {"error"}),
           JElem("object", {"found"}) }
Arrays == UNION { [1..n -> Elems] : n \in 0..MaxElems }
Values == { JNull, JString }
            \cup { JObject(K) : K \in SUBSET {"error", "localId", "idToken"} }
            \cup { JFailure(0), JFailure(ERR_OTHER) }
            \cup { JArray(E) : E \in Arrays }

\* Response texts the transport may have accumulated in str_recv: nothing,
\* text that is no json, or the text of a json value
Text(kind, j) == [text |-> kind, j |-> j]
Bodies == { Text("empty", JNull), Text("garbage", JNull) }
            \cup { Text("json", j) : j \in Values }

\* One response for each way the pool treats a completed transaction: a
\* failure, an object without error, a success that is no object
Responses == { Text("empty", JNull),
               Text("json", JObject({"localId", "idToken"})),
               Text("json", JArray(<<>>)) }

\* json::parse(str, nullptr, false): a discarded value when the text is no json
parse(str) == [discarded |-> str.text # "json", j |-> str.j]

\* json::contains(key): true only of an object that has the key
contains(j, key) == j.k = "object" /\ key \in j.keys

\* non-const json::operator[](0) of an array: an empty array is first filled
\* up with a null, so it always yields an element
at0(j) == IF Len(j.elems) = 0 THEN JElem("null", {}) ELSE j.elems[1]

\* the value after the non-const j[0] access of update()
fill0(j) == IF j.k = "array" /\ Len(j.elems) = 0
            THEN [j EXCEPT !.elems = <<JElem("null", {})>>] ELSE j

\* ------------------------------------------------------------- state
VARIABLES
  otf,                      \* Firestore::otf: 0 = nullptr, 1 = the pool
  on_the_fly_request,       \* the map CURL* -> Request*: handle |-> the Request's fields
  free_requests,            \* vector<Request*>: the free list, a sequence of objects
  next_request_unique_id,   \* the pool's id counter
  common_chunk,             \* the shared header list (carries the token): 0 = nullptr, 1 = a list
  login_chunk,              \* the header list of auth requests: 0 = nullptr, 1 = a list
  msgq,                     \* the multi handle's queue of CURLMSG_DONE messages (handles)
  token,                    \* Firestore::token, 0 = empty
  user_id,                  \* Firestore::user_id, 0 = empty
  stack,                    \* the suspended update() calls, each inside a callback
  heap,                     \* the pool's allocation record
  crashed,                  \* the process was terminated (use after free, uncaught exception)
  ret,                      \* what the call that just returned gave back
  pc,                       \* where the application is in its polling loop
  chain,                    \* the connectOrSignUp call whose closures are in the pool
  rq,                       \* one Request object followed through its reuses
  twin,                     \* a Request that is new at each submit, given the same steps
  phase,                    \* where rq is in its lifecycle
  value,                    \* a json value handed to the encoder
  wire,                     \* a json value in the wire format of the service
  decoded,                  \* what the decoder made of wire
  cstep,                    \* where value and wire are on their way
  build,                    \* "debug": assert() is compiled in; "release": NDEBUG
  remote,                   \* the documents the remote store holds
  script                    \* the chain of callbacks the application runs

\* the session and its pool
session == << otf, on_the_fly_request, free_requests, next_request_unique_id,
              common_chunk, login_chunk, msgq, token, user_id, stack, heap,
              crashed, ret, pc, chain >>

\* the units that are studied on their own
units == << rq, twin, phase, value, wire, decoded, cstep, build, remote,
           script >>

vars == << otf, on_the_fly_request, free_requests, next_request_unique_id,
           common_chunk, login_chunk, msgq, token, user_id, stack, heap,
           crashed, ret, pc, chain, rq, twin, phase, value, wire, decoded,
           cstep, build, remote, script >>

\* The state as one value, so that the C++ functions can be written as
\* functions from state to state and composed in the order the code calls them.
World == [ otf |-> otf, on_the_fly_request |-> on_the_fly_request,
           free_requests |-> free_requests,
           next_request_unique_id |-> next_request_unique_id,
           common_chunk |-> common_chunk, login_chunk |-> login_chunk,
           msgq |-> msgq, token |-> token, user_id |-> user_id,
           stack |-> stack, heap |-> heap, crashed |-> crashed, ret |-> ret,
           chain |-> chain ]

Assign(w) ==
  /\ otf' = w.otf
  /\ on_the_fly_request' = w.on_the_fly_request
  /\ free_requests' = w.free_requests
  /\ next_request_unique_id' = w.next_request_unique_id
  /\ common_chunk' = w.common_chunk
  /\ login_chunk' = w.login_chunk
  /\ msgq' = w.msgq
  /\ token' = w.token
  /\ user_id' = w.user_id
  /\ stack' = w.stack
  /\ heap' = w.heap
  /\ crashed' = w.crashed
  /\ ret' = w.ret
  /\ chain' = w.chain
  /\ UNCHANGED units

\* a step of an application that is in no particular loop
Commit(w) == Assign(w) /\ UNCHANGED pc

\* What the call that just returned gave back: the id allocRequest returned,
\* the bool update returned (1 = true, 0 = false), nothing for a void call or
\* a call that has not returned
NoRet == [op |-> "void", val |-> 0]
Returned(op, v) == [op |-> op, val |-> v]

\* heap.objs counts the Request objects the current pool allocated and
\* heap.peak is the largest size its in-flight map ever had.
Heap0 == [objs |-> 0, peak |-> 0]

\* the empty map
NoRequests == [h \in {} |-> 0]

\* A pool creates one easy handle per transaction: a handle is named by the
\* unique id of its transaction.
Handles == 1..MaxId

\* An allocation yields an identity that nothing refers to any more (the
\* allocator may hand out the address of a freed object again, never the
\* address of a live one).
Fresh(used) == CHOOSE n \in 1..(Cardinality(used) + 1) : n \notin used

\* the suspended update() calls whose pool still exists
Live(w) == { i \in 1..Len(w.stack) : w.stack[i].this = "live" }

\* the Request objects in use: on the free list, in the map, or with their
\* callback running
Objects(w) ==
  Range(w.free_requests)
    \cup { w.on_the_fly_request[h].obj : h \in DOMAIN w.on_the_fly_request }
    \cup { w.stack[i].r.obj : i \in Live(w) }

\* new Request(): the identity of a new Request object
newObject(w) == Fresh(Objects(w))

\* the number of easy handles that exist
Attached(w) == Cardinality(DOMAIN w.on_the_fly_request) + Len(w.stack)

\* No connectOrSignUp call is under way.  Else: state is "signin" while the
\* Request signin holds the lambda of connectOrSignUp, "signup" while the
\* Request signup holds the user's callback, "delivered" once the user's
\* callback was invoked; err is the Result.err the lambda saw, calls counts
\* the invocations of the user's callback, from is the transaction whose
\* Result it was given.
Chain0 ==
  [state |-> "idle", signin |-> 0, signup |-> 0, err |-> 0, calls |-> 0,
   from |-> 0]

\* The process has ended: none of its state is left
Aborted ==
  [ otf |-> 0, on_the_fly_request |-> NoRequests, free_requests |-> <<>>,
    next_request_unique_id |-> 0, common_chunk |-> 0, login_chunk |-> 0,
    msgq |-> <<>>, token |-> 0, user_id |-> 0,
    stack |-> <<>>, heap |-> Heap0, crashed |-> TRUE, ret |-> NoRet,
    chain |-> Chain0 ]

\* ------------------------------------------------- OTFRequests (the pool)
\* curl_slist_free_all(which): a handle that was given the list now holds a
\* dangling pointer.  r.chunk is the header list the handle was given:
\* "null", "login", "common", or "freed" once that list has been freed.
freed(r, which) == IF r.chunk = which THEN [r EXCEPT !.chunk = "freed"] ELSE r

slist_free_all(w, which) ==
  [w EXCEPT !.on_the_fly_request =
               [h \in DOMAIN @ |-> freed(@[h], which)],
            !.stack = [i \in 1..Len(@) |->
                         IF @[i].this = "live"
                         THEN [@[i] EXCEPT !.r = freed(@, which)] ELSE @[i]]]

\* OTFRequests::OTFRequests(): a fresh multi handle, an empty map and free
\* list, the id counter at 0, no common header list, a new login header list
OTFRequests(w) ==
  [w EXCEPT !.otf = 1,
            !.heap = Heap0,
            !.on_the_fly_request = NoRequests,
            !.free_requests = <<>>,
            !.next_request_unique_id = 0,
            !.common_chunk = 0,
            !.login_chunk = 1,
            !.msgq = <<>>]

\* OTFRequests::setToken: the shared header list is freed and built anew
setToken(w, new_token) ==
  LET w1 == IF w.common_chunk # 0 THEN slist_free_all(w, "common") ELSE w IN
  [w1 EXCEPT !.common_chunk = 1]

\* a newRequest that reads free_requests.back() and leaves it on the list
newRequest_no_pop(w) ==
  LET n == Len(w.free_requests)
      id == w.next_request_unique_id + 1 IN
  IF n # 0
  THEN [r |-> w.free_requests[n],
        w |-> [w EXCEPT !.next_request_unique_id = id]]
  ELSE [r |-> Fresh(Range(w.free_requests)
                      \cup { w.on_the_fly_request[h].obj :
                                h \in DOMAIN w.on_the_fly_request }
                      \cup { w.stack[i].r.obj : i \in Live(w) }),
        w |-> [w EXCEPT !.heap.objs = @ + 1,
                        !.next_request_unique_id = id]]

\* a newRequest that gives a new id to a fresh object only: a recycled object
\* keeps the counter where it was
newRequest_recycled_keeps_id(w) ==
  LET n == Len(w.free_requests) IN
  IF n # 0
  THEN [r |-> w.free_requests[n],
        w |-> [w EXCEPT !.free_requests = SubSeq(@, 1, n - 1)]]
  ELSE [r |-> Fresh(Range(w.free_requests)
                      \cup { w.on_the_fly_request[h].obj :
                                h \in DOMAIN w.on_the_fly_request }
                      \cup { w.stack[i].r.obj : i \in Live(w) }),
        w |-> [w EXCEPT !.heap.objs = @ + 1,
                        !.next_request_unique_id = @ + 1]]

\* a newRequest that takes free_requests.front(), the object freed first
newRequest_oldest_first(w) ==
  LET n == Len(w.free_requests)
      id == w.next_request_unique_id + 1 IN
  IF n # 0
  THEN [r |-> w.free_requests[1],
        w |-> [w EXCEPT !.free_requests = SubSeq(@, 2, n),
                        !.next_request_unique_id = id]]
  ELSE [r |-> newObject(w),
        w |-> [w EXCEPT !.heap.objs = @ + 1,
                        !.next_request_unique_id = id]]

\* OTFRequests::newRequest: the object to use and the state after taking it
newRequest(w) ==
  LET n == Len(w.free_requests)
      id == w.next_request_unique_id + 1 IN
  IF n # 0
  THEN [r |-> w.free_requests[n],
        w |-> [w EXCEPT !.free_requests = SubSeq(@, 1, n - 1),
                        !.next_request_unique_id = id]]
  ELSE [r |-> newObject(w),
        w |-> [w EXCEPT !.heap.objs = @ + 1,
                        !.next_request_unique_id = id]]

\* curl_multi_add_handle only attaches the transfer: no message is queued
multi_add_handle(q, h) == q

\* f with key h bound to v
Put(f, h, v) == [x \in DOMAIN f \cup {h} |-> IF x = h THEN v ELSE f[x]]

\* f without key h
Drop(f, h) == [x \in DOMAIN f \ {h} |-> f[x]]

\* flags & bit
has_flag(flags, bit) == (flags \div bit) % 2 = 1

\* OTFRequests::registerRequest of Request r: CurlPrepareRequest makes the
\* handle and gives it the header list by pointer, the handle enters the map
\* and the transport.  (tok: the token that list carries; born: the update()
\* calls that are suspended at this moment.)
registerRequest(w, r) ==
  LET h == r.req_unique_id
      auth == has_flag(r.flags, RPC_FLAG_CONNECT)
      chunk == IF auth THEN "login"
               ELSE IF w.common_chunk # 0 THEN "common" ELSE "null"
      otfs == Put(w.on_the_fly_request, h,
                  [r EXCEPT !.chunk = chunk, !.st = "running",
                            !.tok = IF chunk = "common" THEN w.token ELSE 0]) IN
  [w EXCEPT !.on_the_fly_request = otfs,
            !.msgq = multi_add_handle(@, h),
            !.heap.peak = IF Cardinality(DOMAIN otfs) > @
                          THEN Cardinality(DOMAIN otfs) ELSE @,
            !.stack = [i \in 1..Len(w.stack) |->
                         [w.stack[i] EXCEPT !.born = @ \cup {h}]]]

\* an unregisterRequest that sends a transaction again after its callback,
\* instead of pooling its object
unregisterRequest_retrying(w, h, r) ==
  IF r.cb # 0
  THEN [w EXCEPT !.msgq = SelectSeq(@, LAMBDA m : m # h),
                 !.on_the_fly_request =
                    Put(@, h, [req_unique_id |-> h, obj |-> r.obj,
                               flags |-> 0, chunk |-> "null", tok |-> 0,
                               st |-> "running", cb |-> 0])]
  ELSE [w EXCEPT !.free_requests = Append(@, r.obj),
                 !.msgq = SelectSeq(@, LAMBDA m : m # h)]

\* an unregisterRequest during which the transport makes progress: a
\* running transfer completes and its message is queued
unregisterRequest_progressing(w, h, r) ==
  LET S == { x \in DOMAIN w.on_the_fly_request \ {h} :
               w.on_the_fly_request[x].st = "running" }
      q == SelectSeq(w.msgq, LAMBDA m : m # h) IN
  IF S = {}
  THEN [w EXCEPT !.free_requests = Append(@, r.obj), !.msgq = q]
  ELSE LET x == CHOOSE y \in S : \A z \in S : y <= z IN
       [w EXCEPT !.free_requests = Append(@, r.obj),
                 !.msgq = Append(q, x),
                 !.on_the_fly_request[x].st = "done"]

\* an unregisterRequest that pushes the object on the free list twice
unregisterRequest_twice(w, h, r) ==
  [w EXCEPT !.free_requests = Append(Append(@, r.obj), r.obj),
            !.msgq = SelectSeq(@, LAMBDA m : m # h)]

\* OTFRequests::unregisterRequest(curl, r): r goes to the free list, the
\* handle leaves the transport and is cleaned up
unregisterRequest(w, h, r) ==
  [w EXCEPT !.free_requests = Append(@, r.obj),
            !.msgq = SelectSeq(@, LAMBDA m : m # h)]

\* the loop of ~OTFRequests over the in-flight map (its order is unspecified
\* and does not show: every object on the free list is deleted next)
RECURSIVE unregisterAll(_, _)
unregisterAll(w, S) ==
  IF S = {} THEN w
  ELSE LET h == CHOOSE x \in S : TRUE
       IN unregisterAll(unregisterRequest(w, h, w.on_the_fly_request[h]), S \ {h})

\* An update() whose pool was deleted while it is suspended in a callback:
\* its this dangles and so does the Request of the transaction it is
\* dispatching, whose fields nothing can read any more.
Dead(born) == [this |-> "dead", born |-> born]

\* a destructor that completes the transfers it finds in flight: each is
\* handed to its callback instead of being unregistered
destroy_completing(w) ==
  LET S == DOMAIN w.on_the_fly_request
      w2 == slist_free_all(slist_free_all(w, "common"), "login") IN
  [w2 EXCEPT !.on_the_fly_request = NoRequests,
             !.free_requests = <<>>,
             !.msgq = <<>>,
             !.heap = Heap0,
             !.common_chunk = 0,
             !.login_chunk = 0,
             !.next_request_unique_id = 0,
             !.stack = [i \in 1..Len(@) |-> Dead({})]
                         \o [i \in 1..Cardinality(S) |-> Dead({})]]

\* OTFRequests::~OTFRequests.  Every update() of this pool that is suspended
\* in a callback is left with a dangling this.
destroy(w) ==
  LET w1 == unregisterAll(w, DOMAIN w.on_the_fly_request)
      w2 == slist_free_all(slist_free_all(w1, "common"), "login") IN
  [w2 EXCEPT !.on_the_fly_request = NoRequests,
             !.free_requests = <<>>,
             !.msgq = <<>>,
             !.heap = Heap0,
             !.common_chunk = 0,
             !.login_chunk = 0,
             !.next_request_unique_id = 0,
             !.stack = [i \in 1..Len(@) |-> Dead({})]]

\* ------------------------------------------------------------ Firestore
\* a configure that makes a new pool each time
configure_renewing(w) == OTFRequests(w)

\* Firestore::configure: the pool is created only when there is none
configure(w) == IF w.otf = 0 THEN OTFRequests(w) ELSE w

\* a disconnect that leaves the session signed in
disconnect_keeps_token(w) ==
  LET w1 == IF w.otf # 0 THEN destroy(w) ELSE w IN
  [w1 EXCEPT !.otf = 0, !.user_id = 0]

\* Firestore::disconnect
disconnect(w) ==
  LET w1 == IF w.otf # 0 THEN destroy(w) ELSE w IN
  [w1 EXCEPT !.otf = 0, !.token = 0, !.user_id = 0]

\* Firestore::hasFinished
hasFinished(w) == w.otf # 0 /\ DOMAIN w.on_the_fly_request = {}

\* Firestore::setToken
Firestore_setToken(w, new_token) ==
  setToken([w EXCEPT !.token = new_token], new_token)

\* The Request fields newRequest and allocRequest set (st is the state of
\* the transfer, cb counts the invocations of the callback)
Request(id, obj, flags) ==
  [req_unique_id |-> id, obj |-> obj, flags |-> flags,
   chunk |-> "null", tok |-> 0, st |-> "created", cb |-> 0]

\* an allocRequest without the test for a missing pool
allocRequest_unchecked(w, flags) ==
  LET n == newRequest(w)
      r == Request(n.w.next_request_unique_id, n.r, flags)
  IN [registerRequest(n.w, r) EXCEPT
        !.ret = Returned("allocRequest", r.req_unique_id)]

\* Firestore::allocRequest
allocRequest(w, flags) ==
  IF w.otf = 0
  THEN [w EXCEPT !.ret = Returned("allocRequest", 0)]
  ELSE LET n == newRequest(w)
           r == Request(n.w.next_request_unique_id, n.r, flags)
       IN [registerRequest(n.w, r) EXCEPT
             !.ret = Returned("allocRequest", r.req_unique_id)]

\* ------------------------------------------------- OTFRequests::update
\* an error test that looks at objects only, not at the first element of an
\* array
error_detected_object_only(str_recv) ==
  IF str_recv.text = "empty" THEN TRUE
  ELSE str_recv.text # "json" \/ (str_recv.j.k = "object" /\ "error" \in str_recv.j.keys)

\* lines 224-235: whether update() marks the completed transaction failed
error_detected(str_recv) ==
  IF str_recv.text = "empty" THEN TRUE
  ELSE LET p == parse(str_recv) IN
       IF p.discarded THEN TRUE
       ELSE contains(p.j, "error")
            \/ (p.j.k = "array" /\ contains(at0(p.j), "error"))

\* lines 224-250: the Result update() hands to the callback
result(str_recv) ==
  [err |-> IF error_detected(str_recv) THEN 0 - 1 ELSE 0,
   j |-> IF str_recv.text = "empty" THEN JNull ELSE fill0(parse(str_recv).j),
   str |-> str_recv]

\* a pre_cb that stores the token of a failed login as well
authRequest_pre_cb_storing(w, r, res) ==
  IF res.j.k # "object"
  THEN w
  ELSE Firestore_setToken(
         [w EXCEPT !.user_id = IF "localId" \in res.j.keys
                               THEN r.req_unique_id ELSE 0],
         IF "idToken" \in res.j.keys THEN r.req_unique_id ELSE 0)

\* pre_cb of Firestore::authRequest, run before the user's callback.  On
\* success it stores localId and idToken (the token a login hands out is
\* modelled as the id of the auth transaction); json::value() throws when
\* the parsed response is no object.  On failure the err the callback will
\* see (seen, in the frame of the update() that dispatches) becomes
\* error.code when the response has "error"; get<int>() throws when there
\* is no integer code.
authRequest_pre_cb(w, r, res) ==
  IF res.err = 0
  THEN IF res.j.k # "object"
       THEN Aborted
       ELSE Firestore_setToken(
              [w EXCEPT !.user_id = IF "localId" \in res.j.keys
                                    THEN r.req_unique_id ELSE 0],
              IF "idToken" \in res.j.keys THEN r.req_unique_id ELSE 0)
  ELSE IF contains(res.j, "error")
       THEN IF res.j.code = 0
            THEN Aborted
            ELSE [w EXCEPT !.stack[Len(w.stack)].seen = res.j.code]
       ELSE w

\* update() without its erase: the completed transaction stays in the map
erase_skipped(otfs, h) == otfs

\* lines 246-247: the completed transaction leaves the in-flight map
erase(otfs, h) == Drop(otfs, h)

\* an update() that returns the Request to the free list before the callback
complete_and_free(w, h) ==
  [w EXCEPT !.on_the_fly_request = erase(@, h),
            !.free_requests = Append(@, w.on_the_fly_request[h].obj)]

\* lines 246-250: what update() does to the pool between finding the
\* completed transaction and invoking its callback
complete(w, h) == [w EXCEPT !.on_the_fly_request = erase(@, h)]

\* lines 209-252, for the message of handle h with response str_recv: the
\* Result is computed, h is erased from the map and the callback is invoked.
\* The update() call stays suspended on the stack until the callback
\* returns.  (cb counts the invocations on the Request itself; born: the
\* handles registered while this update() call runs.)
dispatch(w, h, str_recv, born) ==
  LET res == result(str_recv)
      r == [w.on_the_fly_request[h] EXCEPT !.st = "callback", !.cb = @ + 1]
      w0 == [w EXCEPT !.on_the_fly_request[h] = r]
      w1 == [complete(w0, h) EXCEPT
                      !.stack = Append(@,
                                  [this |-> "live", curl |-> h, r |-> r,
                                   born |-> born,
                                   err |-> res.err, seen |-> res.err,
                                   str |-> str_recv]),
                      !.ret = NoRet]
  IN IF r.flags = RPC_FLAG_CONNECT
     THEN authRequest_pre_cb(w1, r, res) ELSE w1

\* an update() that reports work whenever it was able to poll
info_read_loop_reporting_work(w, work_done, born, B) ==
  IF w.msgq = <<>>
  THEN { [w EXCEPT !.ret = Returned("update", 1)] }
  ELSE { dispatch([w EXCEPT !.msgq = Tail(@)], Head(w.msgq), b, born) : b \in B }

\* the do-while of update(): curl_multi_info_read until the queue is empty.
\* Either the next message is dispatched (its response one of B), or
\* update() returns.
info_read_loop(w, work_done, born, B) ==
  IF w.msgq = <<>>
  THEN { [w EXCEPT !.ret = Returned("update", IF work_done THEN 1 ELSE 0)] }
  ELSE { dispatch([w EXCEPT !.msgq = Tail(@)], Head(w.msgq), b, born) : b \in B }

\* the callback of the topmost suspended update() has returned
return(w) == [w EXCEPT !.stack = SubSeq(@, 1, Len(@) - 1)]

\* the transfers curl_multi_perform may complete
Running(w) ==
  { h \in DOMAIN w.on_the_fly_request : w.on_the_fly_request[h].st = "running" }

\* the handles of S in the order they were added to the multi handle
RECURSIVE InOrder(_)
InOrder(S) ==
  IF S = {} THEN <<>>
  ELSE LET h == CHOOSE x \in S : \A y \in S : x <= y
       IN <<h>> \o InOrder(S \ {h})

\* curl_multi_perform completing the transfers of S: it runs the handles in
\* the order they were added and queues a message for each that completes
multi_perform(w, S) ==
  [w EXCEPT !.msgq = @ \o InOrder(S),
            !.on_the_fly_request =
               [h \in DOMAIN @ |-> IF h \in S THEN [@[h] EXCEPT !.st = "done"]
                                   ELSE @[h]]]

\* the running transfers whose header list has been freed
Dangling(w) ==
  { h \in Running(w) : w.on_the_fly_request[h].chunk = "freed" }

Top == stack[Len(stack)]

\* ------------------------------------------- the fields of one Request
\* A received body is kept as the sequence of the pieces appended to it, each
\* piece the text of one complete json value: no piece is the empty body, one
\* piece parses to its value, and several pieces on end are no json.
Pieces == { JObject({}), JObject({"name"}), JObject({"error"}) }

TextOf(str) ==
  IF Len(str) = 0 THEN Text("empty", JNull)
  ELSE IF Len(str) = 1 THEN Text("json", str[1])
  ELSE Text("garbage", JNull)

\* Result(): err = -1, str and added_id empty, j null
Result0 == [err |-> 0 - 1, str |-> <<>>, j |-> JNull, added_id |-> 0]

\* new Request(): the member initialisers of struct Request.  str_sent is
\* kept by its length, callback by the adapter it holds; uses tells whether
\* the object has served no transaction, one, or more than one.
Request0 ==
  [result |-> Result0, str_recv |-> <<>>, str_sent |-> 0, send_offset |-> 0,
   flags |-> 0, callback |-> "none", uses |-> 0]

\* an allocRequest whose init leaves the Result of the last use in place
allocRequest_init_keeps_result(r, jbody, flags, callback) ==
  [r EXCEPT !.str_recv = <<>>,
            !.str_sent = jbody,
            !.send_offset = 0,
            !.flags = flags,
            !.callback = callback]

\* Firestore::allocRequest, lines 284-295: the fields of r are set for the
\* new transaction (jbody: the length of the dumped body, 0 for a null body)
allocRequest_init(r, jbody, flags, callback) ==
  [r EXCEPT !.result = Result0,
            !.str_recv = <<>>,
            !.str_sent = jbody,
            !.send_offset = 0,
            !.flags = flags,
            !.callback = callback]

\* CurlAppendToRequest: the bytes received are appended to str_recv
CurlAppendToRequest(r, buffer) == [r EXCEPT !.str_recv = Append(@, buffer)]

\* a CurlReadFromRequest that does not move the send offset
CurlReadFromRequest_not_advancing(r, num_bytes) ==
  LET remaining_bytes == r.str_sent - r.send_offset
      bytes_to_send == IF num_bytes < remaining_bytes
                       THEN num_bytes ELSE remaining_bytes
  IN [bytes |-> bytes_to_send, r |-> r]

\* CurlReadFromRequest with room for num_bytes: the bytes handed to the
\* transport and the Request afterwards
CurlReadFromRequest(r, num_bytes) ==
  LET remaining_bytes == r.str_sent - r.send_offset
      bytes_to_send == IF num_bytes < remaining_bytes
                       THEN num_bytes ELSE remaining_bytes
  IN [bytes |-> bytes_to_send,
      r |-> [r EXCEPT !.send_offset = @ + bytes_to_send]]

\* update(), lines 224-250, on Request r: err is set, j is assigned only
\* when something was received, str_recv is moved into result.str and is
\* left as `moved` (a moved-from string holds an unspecified value)
update_result(r, moved) ==
  LET t == TextOf(r.str_recv) IN
  [r EXCEPT !.result.err = IF error_detected(t) THEN 0 - 1 ELSE 0,
            !.result.j = IF t.text = "empty" THEN @ ELSE fill0(parse(t).j),
            !.result.str = r.str_recv,
            !.str_recv = moved]

\* the adapter of Ref::add: on success added_id is taken from the name of
\* the response (here 1 stands for the id in that name)
add_pre_cb(r) ==
  IF r.result.err = 0 THEN [r EXCEPT !.result.added_id = 1] ELSE r

\* r->callback(r->result): the adapter stored in the Request runs
callback(r) == IF r.callback = "add" THEN add_pre_cb(r) ELSE r

\* ------------------------------------------------------ document values
\* A json value of the codec: its type k and its payload v.  A string is the
\* sequence of its characters, an array a sequence of values, an object a
\* function from its keys to values.
jnull == [k |-> "null", v |-> 0]
jstring(s) == [k |-> "string", v |-> s]
jnumber(n) == [k |-> "number", v |-> n]
jboolean(b) == [k |-> "boolean", v |-> b]
jarray(a) == [k |-> "array", v |-> a]
jobject(f) == [k |-> "object", v |-> f]

\* an object with the one member key: val
member(key, val) == jobject([x \in {key} |-> val])

\* What a call gives when it does not return a value: an exception of the
\* json library, or no defined behaviour at all
raised(what) == [k |-> "raised", v |-> what]
undefined(what) == [k |-> "undefined", v |-> what]
bad(j) == j.k \in {"raised", "undefined"}

\* the first of the results rs (a sequence) that is no value, else the value j
first_bad(rs, j) ==
  IF \E i \in 1..Len(rs) : bad(rs[i])
  THEN rs[CHOOSE i \in 1..Len(rs) :
            bad(rs[i]) /\ \A m \in 1..(i - 1) : ~bad(rs[m])]
  ELSE j

\* json::contains(key) on a value of the codec
contains_key(j, key) == j.k = "object" /\ key \in DOMAIN j.v

\* const json::operator[](key): type_error 305 on a value that is no object;
\* on an object without the key the library asserts and otherwise reads
\* through the end iterator
at(j, key) ==
  IF j.k # "object" THEN raised("type_error.305")
  ELSE IF key \notin DOMAIN j.v THEN undefined("operator[]: key not found")
  ELSE j.v[key]

\* the decimal digits, and the keys items() gives the elements of an array
Digits == << "0", "1", "2", "3", "4", "5", "6", "7", "8", "9" >>
IsDigit(c) == \E i \in 1..Len(Digits) : Digits[i] = c
DigitOf(c) == (CHOOSE i \in 1..Len(Digits) : Digits[i] = c) - 1

\* json::items(): the members of an object, the elements of an array under
\* their indices, nothing for null, a primitive value itself under the empty
\* key.  Given as a sequence of key and value; the keys of an object come in
\* one fixed order (the order only decides which of two exceptions is first).
RECURSIVE in_order(_)
in_order(S) ==
  IF S = {} THEN << >>
  ELSE LET x == CHOOSE y \in S : TRUE IN << x >> \o in_order(S \ {x})

items(j) ==
  IF j.k = "object"
  THEN LET ks == in_order(DOMAIN j.v) IN
       [i \in 1..Len(ks) |-> [key |-> ks[i], val |-> j.v[ks[i]]]]
  ELSE IF j.k = "array"
  THEN [i \in 1..Len(j.v) |-> [key |-> Digits[i], val |-> j.v[i]]]
  ELSE IF j.k = "null" THEN << >>
  ELSE << [key |-> "", val |-> j] >>

\* isTimeISO8601 (the characters of a C++ string are numbered from 0)
isTimeISO8601(str) ==
  /\ Len(str) >= 20
  /\ str[5] = "-"
  /\ str[8] = "-"
  /\ str[11] = "T"
  /\ str[14] = ":"
  /\ str[17] = ":"
  /\ str[Len(str)] = "Z"

\* atoi: the number the leading decimal digits spell, 0 when there are none
RECURSIVE atoi_from(_, _, _)
atoi_from(str, i, n) ==
  IF i > Len(str) \/ ~IsDigit(str[i]) THEN n
  ELSE atoi_from(str, i + 1, n * 10 + DigitOf(str[i]))

atoi(str) == atoi_from(str, 1, 0)

\* the object with the members kv (a sequence of key and value)
object_of(kv) ==
  jobject([x \in { kv[i].key : i \in 1..Len(kv) } |->
             kv[CHOOSE i \in 1..Len(kv) :
                  kv[i].key = x /\ \A m \in (i + 1)..Len(kv) : kv[m].key # x].val])

RECURSIVE asValue(_)
RECURSIVE asDocument(_)
RECURSIVE fromValue(_)
RECURSIVE fromFields(_)

\* asValue
asValue(inValue) ==
  IF inValue.k = "string"
  THEN IF isTimeISO8601(inValue.v)
       THEN member("timestampValue", inValue)
       ELSE member("stringValue", inValue)
  ELSE IF inValue.k = "boolean" THEN member("booleanValue", inValue)
  ELSE IF inValue.k = "array"
  THEN member("arrayValue",
              member("values",
                     jarray([i \in 1..Len(inValue.v) |-> asValue(inValue.v[i])])))
  ELSE IF inValue.k = "object" THEN member("mapValue", asDocument(inValue))
  ELSE IF inValue.k = "number" THEN member("doubleValue", inValue)
  ELSE IF inValue.k = "null" THEN member("nullValue", jnull)
  ELSE jnull

\* asDocument
asDocument(inDoc) ==
  LET el == items(inDoc) IN
  member("fields",
         object_of([i \in 1..Len(el) |->
                      [key |-> el[i].key, val |-> asValue(el[i].val)]]))

\* a fromFields that hands the members over as they are on the wire
fromFields_flat(j) ==
  LET fields == at(j, "fields") IN
  IF bad(fields) THEN fields ELSE object_of(items(fields))

\* fromFields
fromFields(j) ==
  LET fields == at(j, "fields") IN
  IF bad(fields) THEN fields
  ELSE LET el == items(fields)
           rs == [i \in 1..Len(el) |->
                    [key |-> el[i].key, val |-> fromValue(el[i].val)]]
       IN first_bad([i \in 1..Len(rs) |-> rs[i].val], object_of(rs))

\* fromValue
fromValue(j) ==
  IF contains_key(j, "fields") THEN fromFields(j)
  ELSE IF contains_key(j, "mapValue") THEN fromFields(j.v["mapValue"])
  ELSE IF contains_key(j, "stringValue") THEN j.v["stringValue"]
  ELSE IF contains_key(j, "booleanValue") THEN j.v["booleanValue"]
  ELSE IF contains_key(j, "timestampValue") THEN j.v["timestampValue"]
  ELSE IF contains_key(j, "arrayValue")
  THEN LET jarrayValue == j.v["arrayValue"] IN
       IF contains_key(jarrayValue, "values")
       THEN LET values == jarrayValue.v["values"]
                el == IF values.k = "object" THEN items(values)
                      ELSE IF values.k = "array"
                      THEN [i \in 1..Len(values.v) |-> [val |-> values.v[i]]]
                      ELSE IF values.k = "null" THEN << >>
                      ELSE << [val |-> values] >>
                rs == [i \in 1..Len(el) |-> fromValue(el[i].val)]
            IN first_bad(rs, jarray(rs))
       ELSE jarray(<< >>)
  ELSE IF contains_key(j, "doubleValue") THEN j.v["doubleValue"]
  ELSE IF contains_key(j, "integerValue")
  THEN IF j.v["integerValue"].k = "string"
       THEN jnumber(atoi(j.v["integerValue"].v))
       ELSE raised("type_error.302")
  ELSE jnull

UnitsInit ==
  /\ rq = Request0
  /\ twin = Request0
  /\ phase = "new"
  /\ value = jnull
  /\ wire = jnull
  /\ decoded = jnull
  /\ cstep = "idle"
  /\ build = "debug"
  /\ remote = << >>
  /\ script = << >>

Init ==
  /\ otf = 0
  /\ on_the_fly_request = NoRequests
  /\ free_requests = <<>>
  /\ next_request_unique_id = 0
  /\ common_chunk = 0
  /\ login_chunk = 0
  /\ msgq = <<>>
  /\ token = 0
  /\ user_id = 0
  /\ stack = <<>>
  /\ heap = Heap0
  /\ crashed = FALSE
  /\ ret = NoRet
  /\ pc = "user"
  /\ chain = Chain0
  /\ UnitsInit

\* ------------------------------------------------------------- actions
\* User code runs whenever the process is alive: at top level when the stack
\* is empty, otherwise inside the callback of the topmost suspended update().

\* db.configure(...)
Configure ==
  /\ ~crashed
  /\ Commit([configure(World) EXCEPT !.ret = NoRet])

\* db.disconnect()
Disconnect ==
  /\ ~crashed
  /\ Commit([disconnect(World) EXCEPT !.ret = NoRet])

\* a Ref operation (read, write, del, add, ...): allocRequest without the
\* connect flag
Submit ==
  /\ ~crashed
  /\ otf = 0 \/ (Attached(World) < MaxTx /\ next_request_unique_id < MaxId)
  /\ Commit(allocRequest(World, 0))

\* db.connect / db.signUp: authRequest asserts the pool, then allocRequest
\* with RPC_FLAG_CONNECT
Connect ==
  /\ ~crashed
  /\ otf # 0
  /\ Attached(World) < MaxTx
  /\ next_request_unique_id < MaxId
  /\ Commit(allocRequest(World, RPC_FLAG_CONNECT))

\* db.update(): false without a pool; else one curl_multi_perform, then the
\* completions are drained, which may enter a callback
update(B) ==
  /\ ~crashed
  /\ Len(stack) < MaxDepth
  /\ IF otf = 0
     THEN Commit([World EXCEPT !.ret = Returned("update", 0)])
     ELSE \E S \in SUBSET Running(World) :
            \E w \in info_read_loop(multi_perform(World, S), FALSE, {}, B) :
              Commit(w)

Update == update(Responses)

\* an update() that, when curl_multi_perform reports an error, still reads the
\* queued messages and releases their transactions before it returns false
UpdatePerformFails_releasing ==
  /\ ~crashed
  /\ otf # 0
  /\ LET S == Range(msgq)
         w == unregisterAll(World, S) IN
     Commit([w EXCEPT !.on_the_fly_request =
                         [h \in DOMAIN @ \ S |-> @[h]],
                      !.ret = Returned("update", 0)])

\* db.update() when curl_multi_perform reports an error: update returns false
UpdatePerformFails ==
  /\ ~crashed
  /\ otf # 0
  /\ Commit([World EXCEPT !.ret = Returned("update", 0)])

\* curl_multi_perform reads the header list of a running transfer after
\* setToken freed it: one outcome of that read is the end of the process
UpdateUseAfterFree ==
  /\ ~crashed
  /\ otf # 0
  /\ Dangling(World) # {}
  /\ Commit(Aborted)

\* The callback returns to the update() that invoked it (lines 254-258):
\* the transaction is unregistered, work_done is set, the loop goes on.
callbackReturn(B) ==
  /\ ~crashed
  /\ stack # <<>>
  /\ Top.this = "live"
  /\ \E w \in info_read_loop(unregisterRequest(return(World), Top.curl, Top.r),
                             TRUE, Top.born, B) :
       Commit(w)

CallbackReturn == callbackReturn(Responses)

\* The callback returns to an update() whose pool was deleted meanwhile
\* (disconnect called inside a callback): unregisterRequest and the loop run
\* on a dangling this.  Outcomes: the process ends; ...
CallbackReturnCrash ==
  /\ ~crashed
  /\ stack # <<>>
  /\ Top.this = "dead"
  /\ Commit(Aborted)

\* ... or the freed pool still reads as it was left: the object is pushed on
\* the dead free list (and never deleted), the easy handle is cleaned up, the
\* dead multi handle yields no message and update() returns true; ...
CallbackReturnStale ==
  /\ ~crashed
  /\ stack # <<>>
  /\ Top.this = "dead"
  /\ Commit([return(World) EXCEPT !.ret = Returned("update", 1)])

\* ... or a pool configured since then was allocated where the old one was:
\* the object lands on the new pool's free list and the loop goes on reading
\* the new pool's messages.
CallbackReturnAliased ==
  /\ ~crashed
  /\ stack # <<>>
  /\ Top.this = "dead"
  /\ otf # 0
  /\ \E w \in info_read_loop(
                 unregisterRequest(return(World), 0, [obj |-> newObject(World)]),
                 TRUE, Top.born, Responses) :
       Commit(w)

Next ==
  \/ Configure
  \/ Disconnect
  \/ Submit
  \/ Connect
  \/ Update
  \/ UpdatePerformFails
  \/ UpdateUseAfterFree
  \/ CallbackReturn
  \/ CallbackReturnCrash
  \/ CallbackReturnStale
  \/ CallbackReturnAliased

Spec == Init /\ [][Next]_vars

\* ------------------------------------------- submit and poll calls only
\* The sequences of configure, submit and poll calls: the pool is never
\* torn down.
PoolNext ==
  \/ Configure
  \/ Submit
  \/ Connect
  \/ Update
  \/ UpdatePerformFails
  \/ UpdateUseAfterFree
  \/ CallbackReturn

PoolSpec == Init /\ [][PoolNext]_vars

\* ------------------------------------------------ every response body
\* The transport may deliver any body; the application submits and polls at
\* top level and its callbacks only return.
ResultSubmit == stack = <<>> /\ Submit

ResultConnect == stack = <<>> /\ Connect

ResultUpdate == stack = <<>> /\ update(Bodies)

ResultCallbackReturn == callbackReturn(Bodies)

ResultNext ==
  \/ Configure
  \/ ResultSubmit
  \/ ResultConnect
  \/ ResultUpdate
  \/ ResultCallbackReturn

ResultSpec == Init /\ [][ResultNext]_vars

\* ------------------------------------------------------ lifecycle properties
InFlight == DOMAIN on_the_fly_request

\* the update() calls suspended in a callback whose pool still exists
Calls == Live(World)

\* C1: the callback of a transaction is never invoked more than once: a
\* transaction still in flight has not had its callback invoked, a transaction
\* whose callback is running has had it invoked exactly once, and the
\* transport holds at most one completion message per in-flight transaction.
C1_CallbackAtMostOnce ==
  /\ \A h \in InFlight : on_the_fly_request[h].cb = 0
  /\ \A i \in Calls : stack[i].r.cb = 1
  /\ \A k \in 1..Len(msgq) :
       /\ msgq[k] \in InFlight
       /\ \A l \in 1..Len(msgq) : msgq[l] = msgq[k] => l = k

\* two callbacks are running, one invoked by a poll made inside the other
C1_Witness ==
  /\ Len(stack) = 2
  /\ Calls = {1, 2}
  /\ stack[1].r.cb = 1
  /\ stack[2].r.cb = 1

\* C4: while a callback runs, its transaction is no longer in the in-flight
\* map and its Request object is neither on the free list nor owned by an
\* in-flight transaction (so no submit made by the callback was handed it).
C4_RequestHeldDuringCallback ==
  \A i \in Calls :
    /\ stack[i].curl \notin InFlight
    /\ stack[i].r.obj \notin Range(free_requests)
    /\ \A h \in InFlight : on_the_fly_request[h].obj # stack[i].r.obj

\* a callback is running and a submit it made was handed the recycled object
\* of another transaction, not the object of the callback's own transaction
C4_Witness ==
  /\ Len(stack) = 1
  /\ Calls = {1}
  /\ stack[1].born # {}
  /\ stack[1].born \subseteq InFlight
  /\ ret = Returned("allocRequest", next_request_unique_id)
  /\ heap.objs = 2
  /\ free_requests = <<>>
  /\ next_request_unique_id = 3

\* C5: hasOutstanding(), the negation of hasFinished(), is true exactly when
\* the in-flight map is not empty.
C5_OutstandingIffInFlight == (~hasFinished(World)) <=> (InFlight # {})

\* C6: every in-flight transaction keeps a valid header list: the list its
\* handle was given at registration has not been freed.
C6_HeadersStayValid ==
  \A h \in InFlight : on_the_fly_request[h].chunk # "freed"

\* C7: the in-flight map and the free list share no Request object, no object
\* is on the free list twice or owned by two in-flight transactions, and the
\* number of objects the pool allocated is at least the largest number of
\* transactions that were in flight at one time.
C7_PoolInvariant ==
  /\ \A h \in InFlight : on_the_fly_request[h].obj \notin Range(free_requests)
  /\ \A k, l \in 1..Len(free_requests) :
       free_requests[k] = free_requests[l] => k = l
  /\ \A g, h \in InFlight :
       on_the_fly_request[g].obj = on_the_fly_request[h].obj => g = h
  /\ heap.objs >= heap.peak

\* two transactions were in flight at once, one has completed and its object
\* is on the free list while the other is still in flight
C7_Witness ==
  /\ heap.peak = 2
  /\ heap.objs = 2
  /\ Len(free_requests) = 1
  /\ Cardinality(InFlight) = 1
  /\ stack = <<>>

\* C8: no transaction is released through a pool that has been destroyed: no
\* update() is left suspended in a callback with its pool deleted (when that
\* callback returns, update() unregisters the transaction through the dead
\* pool).
C8_ReleasedThroughLivePool ==
  \A i \in 1..Len(stack) : stack[i].this = "live"

C10_SubmitResult ==
  [][ ret'.op = "allocRequest" =>
        IF otf = 0
        THEN /\ ret'.val = 0
             /\ UNCHANGED << otf, on_the_fly_request, free_requests,
                             next_request_unique_id, common_chunk, login_chunk,
                             msgq, token, user_id, stack, heap, crashed >>
        ELSE /\ ret'.val = next_request_unique_id + 1
             /\ ret'.val # 0
             /\ ret'.val \notin InFlight
             /\ DOMAIN on_the_fly_request' = InFlight \cup {ret'.val}
             /\ on_the_fly_request'[ret'.val].req_unique_id = ret'.val
             /\ on_the_fly_request'[ret'.val].st = "running"
             /\ Len(stack') = Len(stack)
             /\ msgq' = msgq ]_vars

\* a submit made inside a callback after a disconnect has returned 0
C10_Witness ==
  /\ ret = Returned("allocRequest", 0)
  /\ otf = 0
  /\ stack # <<>>

\* C3: the err update() hands to the callback is -1 exactly when the body is
\* empty, or is no json, or is an object with the key error, or is an array
\* whose first element has the key error; otherwise it is 0.
C3_ErrIffFailedBody ==
  \A i \in Calls :
    LET b == stack[i].str
        failed ==
          \/ b.text = "empty"
          \/ b.text = "garbage"
          \/ b.text = "json" /\ b.j.k = "object" /\ "error" \in b.j.keys
          \/ /\ b.text = "json"
             /\ b.j.k = "array"
             /\ Len(b.j.elems) >= 1
             /\ b.j.elems[1].k = "object"
             /\ "error" \in b.j.elems[1].keys
    IN stack[i].err = IF failed THEN 0 - 1 ELSE 0

\* a callback got err -1 for an array whose first element carries error
C3_Witness ==
  /\ Calls = {1}
  /\ stack[1].err = 0 - 1
  /\ stack[1].str.text = "json"
  /\ stack[1].str.j.k = "array"
  /\ Len(stack[1].str.j.elems) = 2
  /\ "error" \in stack[1].str.j.elems[1].keys

\* ------------------------------------------------- the polling loop
\* An application that sets the session up, then runs
\*   while (!db.hasFinished()) db.update();
\* (demo, main).  pc: "setup", then "test" (about to call hasFinished),
\* "call" (about to call update), "callback" (inside a callback that update
\* invoked), "done" (the loop has ended), "crashed" (the auth adapter
\* threw).  Callbacks submit further transactions (at most MaxId per pool)
\* and return.  The loop is followed along the runs in which a transfer whose
\* header list was freed goes on undisturbed.
Resume(w) ==
  IF w.crashed THEN "crashed"
  ELSE IF w.stack = <<>> THEN "test" ELSE "callback"

LoopInit ==
  /\ otf = 0
  /\ on_the_fly_request = NoRequests
  /\ free_requests = <<>>
  /\ next_request_unique_id = 0
  /\ common_chunk = 0
  /\ login_chunk = 0
  /\ msgq = <<>>
  /\ token = 0
  /\ user_id = 0
  /\ stack = <<>>
  /\ heap = Heap0
  /\ crashed = FALSE
  /\ ret = NoRet
  /\ pc = "setup"
  /\ chain = Chain0
  /\ UnitsInit

LoopConfigure ==
  /\ pc = "setup"
  /\ Assign([configure(World) EXCEPT !.ret = NoRet])
  /\ UNCHANGED pc

LoopSubmit ==
  /\ pc \in {"setup", "callback"}
  /\ otf = 0 \/ (Attached(World) < MaxTx /\ next_request_unique_id < MaxId)
  /\ \E flags \in {0, RPC_FLAG_CONNECT} :
       /\ flags = RPC_FLAG_CONNECT => otf # 0
       /\ Assign(allocRequest(World, flags))
  /\ UNCHANGED pc

LoopStart ==
  /\ pc = "setup"
  /\ pc' = "test"
  /\ Assign(World)

LoopTest ==
  /\ pc = "test"
  /\ pc' = IF hasFinished(World) THEN "done" ELSE "call"
  /\ Assign(World)

\* db.update() in which curl_multi_perform completes the transfers of S
LoopUpdate(S) ==
  /\ pc = "call"
  /\ IF otf = 0
     THEN S = {} /\ Assign([World EXCEPT !.ret = Returned("update", 0)])
                 /\ pc' = "test"
     ELSE /\ S \subseteq Running(World)
          /\ \E w \in info_read_loop(multi_perform(World, S), FALSE, {}, Responses) :
               Assign(w) /\ pc' = Resume(w)

LoopPoll == \E S \in SUBSET Handles : LoopUpdate(S)

\* db.update() in which the transfer of h completes
LoopCompletes(h) == \E S \in SUBSET Handles : h \in S /\ LoopUpdate(S)

LoopCallbackReturn ==
  /\ pc = "callback"
  /\ \E w \in info_read_loop(unregisterRequest(return(World), Top.curl, Top.r),
                             TRUE, Top.born, Responses) :
       Assign(w) /\ pc' = Resume(w)

LoopNext ==
  \/ LoopConfigure
  \/ LoopSubmit
  \/ LoopStart
  \/ LoopTest
  \/ LoopPoll
  \/ LoopCallbackReturn

\* The application enters the loop and goes on with it, callbacks return, and
\* the transport completes every transfer that stays registered.
LoopFairness ==
  /\ WF_vars(LoopStart)
  /\ WF_vars(LoopTest)
  /\ WF_vars(LoopPoll)
  /\ WF_vars(LoopCallbackReturn)
  /\ \A h \in Handles : SF_vars(LoopCompletes(h))

LoopSpec == LoopInit /\ [][LoopNext]_vars /\ LoopFairness

\* C2: the polling loop terminates, hasFinished() having become true, and
\* every transaction in flight has its callback invoked.
C2_PollingLoopTerminates ==
  /\ <>(pc = "done")
  /\ \A h \in Handles :
       (h \in InFlight) ~> (\E i \in Calls : stack[i].curl = h)

\* ----------------------------------------------------------------- ids
\* C11: the transactions in flight have pairwise different unique ids, none
\* above the pool's counter; a pool's counter starts at 0 and only moves by
\* one, at a submit, which hands out the new value (so ids are 1, 2, 3, ...
\* in submission order), on a recycled object as on a fresh one.
C11_UniqueIncreasingIds ==
  /\ [](\A g, h \in InFlight :
          /\ on_the_fly_request[h].req_unique_id >= 1
          /\ on_the_fly_request[h].req_unique_id <= next_request_unique_id
          /\ on_the_fly_request[g].req_unique_id
               = on_the_fly_request[h].req_unique_id => g = h)
  /\ [][ (ret'.op = "allocRequest" /\ otf # 0) =>
           /\ next_request_unique_id' = next_request_unique_id + 1
           /\ ret'.val = next_request_unique_id'
           /\ on_the_fly_request'[ret'.val].req_unique_id = ret'.val
           /\ \A h \in InFlight :
                on_the_fly_request[h].req_unique_id < ret'.val ]_vars
  /\ [][ next_request_unique_id' # next_request_unique_id =>
           \/ /\ next_request_unique_id' = next_request_unique_id + 1
              /\ ret'.op = "allocRequest"
           \/ /\ next_request_unique_id' = 0
              /\ otf' = 0 ]_vars
  /\ [][ (otf = 0 /\ otf' # 0) => next_request_unique_id' = 0 ]_vars

\* the third id of a pool was given to a recycled object (the pool has
\* allocated two) while an older transaction is still in flight
C11_Witness ==
  /\ ret = Returned("allocRequest", 3)
  /\ heap.objs = 2
  /\ InFlight = {2, 3}
  /\ stack = <<>>

\* ----------------------------------------------- one Request, recycled
\* One Request object of the pool through its uses: submit (from new or
\* from the free list), the transport's reads and writes, the dispatch by
\* update() with the adapter's callback, the return to the free list.  twin
\* takes the same steps but starts each submit as a new Request.
RecycleInit ==
  /\ Init
  /\ phase = "new"

RecycleSubmit ==
  /\ phase \in {"new", "pooled"}
  /\ \E jbody \in 0..MaxBody, flags \in {0, 1, RPC_FLAG_CONNECT},
        cb \in {"user", "add"} :
       /\ rq' = [allocRequest_init(rq, jbody, flags, cb) EXCEPT
                   !.uses = IF rq.uses < 2 THEN rq.uses + 1 ELSE 2]
       /\ twin' = allocRequest_init(Request0, jbody, flags, cb)
  /\ phase' = "registered"
  /\ UNCHANGED << session, value, wire, decoded, cstep, build, remote, script >>

RecycleSend ==
  /\ phase = "registered"
  /\ \E num_bytes \in 1..MaxBody :
       /\ rq' = CurlReadFromRequest(rq, num_bytes).r
       /\ twin' = CurlReadFromRequest(twin, num_bytes).r
  /\ UNCHANGED << phase, session, value, wire, decoded, cstep, build, remote,
                  script >>

RecycleReceive ==
  /\ phase = "registered"
  /\ Len(rq.str_recv) < MaxPieces
  /\ \E buffer \in Pieces :
       /\ rq' = CurlAppendToRequest(rq, buffer)
       /\ twin' = CurlAppendToRequest(twin, buffer)
  /\ UNCHANGED << phase, session, value, wire, decoded, cstep, build, remote,
                  script >>

\* update() dispatches the transaction; the add adapter reads the name of a
\* successful response and throws when there is none
RecycleDispatch ==
  /\ phase = "registered"
  /\ \E moved \in {<<>>, rq.str_recv} :
       LET r == update_result(rq, moved)
           t == update_result(twin, <<>>) IN
       IF r.callback = "add" /\ r.result.err = 0 /\ "name" \notin r.result.j.keys
       THEN /\ phase' = "crashed"
            /\ rq' = r
            /\ twin' = t
       ELSE /\ phase' = "callback"
            /\ rq' = callback(r)
            /\ twin' = callback(t)
  /\ UNCHANGED << session, value, wire, decoded, cstep, build, remote, script >>

\* the callback returns and unregisterRequest puts the object on the free list
RecycleReturn ==
  /\ phase = "callback"
  /\ phase' = "pooled"
  /\ UNCHANGED << rq, twin, session, value, wire, decoded, cstep, build,
                  remote, script >>

RecycleNext ==
  \/ RecycleSubmit
  \/ RecycleSend
  \/ RecycleReceive
  \/ RecycleDispatch
  \/ RecycleReturn

RecycleSpec == RecycleInit /\ [][RecycleNext]_vars

\* C12: from submit until its callback has run, a recycled Request shows
\* what a new Request would show: the same Result (err, j, str, added_id),
\* flags, send offset, body to send and callback, and while the transfer runs
\* the same received bytes.
C12_RecycledAsNew ==
  /\ phase \in {"registered", "callback"} =>
       /\ rq.result = twin.result
       /\ rq.flags = twin.flags
       /\ rq.send_offset = twin.send_offset
       /\ rq.str_sent = twin.str_sent
       /\ rq.callback = twin.callback
  /\ phase = "registered" => rq.str_recv = twin.str_recv

\* the callback of a transaction that sent and received nothing runs on an
\* object that served a transaction before
C12_Witness ==
  /\ phase = "callback"
  /\ rq.uses = 2
  /\ rq.result.str = <<>>
  /\ rq.result.j = JNull
  /\ rq.result.added_id = 0
  /\ rq.flags = 0
  /\ rq.send_offset = 0
  /\ rq.str_sent = 0

\* ------------------------------------------------------------ lifecycle
\* a step registers h: a submit returns h, the pool's next id
Registers(h) ==
  /\ ret'.op = "allocRequest"
  /\ ret'.val = h
  /\ h = next_request_unique_id + 1

\* a step fires the callback of h: update() is now suspended in it
Fires(h) ==
  /\ stack' # <<>>
  /\ stack'[Len(stack')].this = "live"
  /\ stack'[Len(stack')].curl = h
  /\ stack'[Len(stack')].r.cb = 1

\* a step returns from the callback of the transaction that owns object o
Returns(o) ==
  /\ stack # <<>>
  /\ Top.this = "live" => Top.r.obj = o
  /\ Len(stack') <= Len(stack)

\* a step hands the pooled object o to a new transaction
Reuses(o) ==
  \E h \in DOMAIN on_the_fly_request' \ InFlight :
    /\ Registers(h)
    /\ on_the_fly_request'[h].obj = o

\* C13 as stated: a transaction becomes in flight only by a submit that gives
\* it a new id, leaves the in-flight map only by having its callback fired,
\* its object reaches the free list only when that callback has returned and
\* leaves the free list only by a new submit.
C13_LifecycleOnly ==
  [][ /\ \A h \in DOMAIN on_the_fly_request' \ InFlight : Registers(h)
      /\ \A h \in InFlight \ DOMAIN on_the_fly_request' : Fires(h)
      /\ \A o \in Range(free_requests') \ Range(free_requests) : Returns(o)
      /\ \A o \in Range(free_requests) \ Range(free_requests') : Reuses(o)
    ]_vars

\* C13 amended: the same, except that the destruction of the pool (disconnect
\* or the end of the process) takes the transactions in flight and the pooled
\* objects away without firing a callback.
C13_LifecycleOrTeardown ==
  [][ /\ \A h \in DOMAIN on_the_fly_request' \ InFlight : Registers(h)
      /\ \A h \in InFlight \ DOMAIN on_the_fly_request' :
           Fires(h) \/ otf' = 0
      /\ \A o \in Range(free_requests') \ Range(free_requests) : Returns(o)
      /\ \A o \in Range(free_requests) \ Range(free_requests') :
           Reuses(o) \/ otf' = 0
    ]_vars

\* an object has gone through the whole lifecycle and is in flight again, for
\* a second transaction with a new id
C13_Witness ==
  /\ heap.objs = 1
  /\ free_requests = <<>>
  /\ InFlight = {2}
  /\ ret = Returned("allocRequest", 2)
  /\ stack = <<>>

\* ------------------------------------------------------------ disconnect
\* C14: disconnect() destroys the pool and clears the bearer token and the
\* user id; afterwards nothing is in flight, every submit returns 0 and
\* registers nothing until configure is called again (only configure makes a
\* pool), and a second disconnect() changes nothing.
C14_DisconnectClears ==
  /\ [](otf = 0 =>
          /\ InFlight = {}
          /\ free_requests = <<>>
          /\ msgq = <<>>
          /\ heap = Heap0
          /\ common_chunk = 0 /\ login_chunk = 0
          /\ token = 0 /\ user_id = 0)
  /\ [][Disconnect => otf' = 0 /\ token' = 0 /\ user_id' = 0 /\ InFlight' = {}]_vars
  /\ [][otf = 0 /\ Submit =>
          /\ ret' = Returned("allocRequest", 0)
          /\ UNCHANGED << otf, on_the_fly_request, free_requests,
                          next_request_unique_id, common_chunk, login_chunk,
                          msgq, token, user_id, stack, heap, crashed >>]_vars
  /\ [][otf = 0 /\ otf' # 0 => Configure]_vars
  /\ [][otf = 0 /\ Disconnect =>
          UNCHANGED << otf, on_the_fly_request, free_requests,
                       next_request_unique_id, common_chunk, login_chunk,
                       msgq, token, user_id, stack, heap, crashed >>]_vars

\* disconnect() was called inside a callback (the suspended update() is left
\* with a deleted pool) and the submit that followed returned 0
C14_Witness ==
  /\ otf = 0
  /\ stack # <<>>
  /\ Top.this = "dead"
  /\ ret = Returned("allocRequest", 0)
  /\ ~crashed

\* ------------------------------------------------------------- configure
\* C15: configure() on a session that already has a pool keeps that pool:
\* its in-flight transactions, free list, id counter, header lists and
\* pending completions are unchanged, and so are the token, the user id and
\* the update() calls that are suspended in callbacks.
C15_ConfigureIdempotent ==
  [][otf # 0 /\ Configure =>
       UNCHANGED << otf, on_the_fly_request, free_requests,
                    next_request_unique_id, common_chunk, login_chunk,
                    msgq, token, user_id, stack, heap, crashed >>]_vars

\* configure() has just returned on a pool with a transaction in flight, an
\* object on its free list and a token in its header list
C15_Witness ==
  /\ ret = NoRet
  /\ otf # 0
  /\ InFlight # {}
  /\ free_requests # <<>>
  /\ common_chunk = 1
  /\ next_request_unique_id = 2

\* -------------------------------------------------------- authentication
\* C16: when update() enters the user's callback of an auth transaction whose
\* Result it gave err 0, user id and token are by then the response's localId
\* and idToken and the shared header list carries that token; when it gave an
\* error, user id, token and header list are as they were and the callback
\* sees error.code in Result.err if the response is an object with "error",
\* else the err update() set.  A non-auth transaction submitted once a token
\* is in the header list is attached to that list, with the session's token.
C16_AuthOutcome ==
  /\ [][\A h \in InFlight \ DOMAIN on_the_fly_request' :
          (Fires(h) /\ on_the_fly_request[h].flags = RPC_FLAG_CONNECT) =>
            LET f == stack'[Len(stack')]
                j == f.str.j IN
            IF f.err = 0
            THEN /\ user_id' = IF "localId" \in j.keys THEN h ELSE 0
                 /\ token' = IF "idToken" \in j.keys THEN h ELSE 0
                 /\ common_chunk' = 1
                 /\ f.seen = 0
            ELSE /\ UNCHANGED << user_id, token, common_chunk >>
                 /\ f.seen = IF j.k = "object" /\ "error" \in j.keys
                             THEN j.code ELSE f.err
       ]_vars
  /\ [][\A h \in DOMAIN on_the_fly_request' \ InFlight :
          (on_the_fly_request'[h].flags = 0 /\ common_chunk # 0) =>
            /\ on_the_fly_request'[h].chunk = "common"
            /\ on_the_fly_request'[h].tok = token
       ]_vars

\* a second login fails with a remote error while the session is signed in
\* and a transaction submitted after the first login is in flight: the
\* callback sees the remote code, the token is the first login's
C16_Witness ==
  /\ stack # <<>>
  /\ Top.this = "live"
  /\ Top.r.flags = RPC_FLAG_CONNECT
  /\ Top.err = 0 - 1
  /\ Top.seen = ERR_AUTH_EMAIL_NOT_FOUND
  /\ token = 1
  /\ user_id = 1
  /\ \E h \in InFlight :
       /\ on_the_fly_request[h].flags = 0
       /\ on_the_fly_request[h].chunk = "common"
       /\ on_the_fly_request[h].tok = 1

\* ------------------------------------------------------- connectOrSignUp
\* Response bodies of the identity service: none, a remote error with the
\* email-not-found code, with another code, without a code, a login, and a
\* value that is no object
SignBodies ==
  { Text("empty", JNull),
    Text("json", JObject({"error"})),
    Text("json", JFailure(ERR_OTHER)),
    Text("json", JFailure(0)),
    Text("json", JObject({"localId", "idToken"})),
    Text("json", JArray(<<>>)) }

\* Firestore::connectOrSignUp: connect() with the lambda as its callback
connectOrSignUp(w) ==
  LET w1 == allocRequest(w, RPC_FLAG_CONNECT) IN
  [w1 EXCEPT !.chain = [Chain0 EXCEPT !.state = "signin",
                                      !.signin = w1.ret.val]]

\* the user's callback is invoked with the Result of the transaction that
\* update() is dispatching
cb(w) ==
  [w EXCEPT !.chain.state = "delivered",
            !.chain.calls = @ + 1,
            !.chain.from = w.stack[Len(w.stack)].curl]

\* Firestore::signUp as the lambda calls it: authRequest with the user's
\* callback
signUp(w) ==
  LET w1 == allocRequest(w, RPC_FLAG_CONNECT) IN
  [w1 EXCEPT !.chain.state = "signup", !.chain.signup = w1.ret.val]

\* the lambda without its return: after signUp the sign-in Result is
\* delivered as well
connectOrSignUp_lambda_falling_through(w) ==
  LET r == w.stack[Len(w.stack)]
      w1 == [w EXCEPT !.chain.err = r.seen] IN
  IF r.seen = ERR_AUTH_EMAIL_NOT_FOUND
  THEN [cb(signUp(w1)) EXCEPT !.chain.state = "signup"]
  ELSE cb(w1)

\* lines 600-606, the lambda connectOrSignUp passes to connect(): r is the
\* Result of the sign-in, after pre_cb
connectOrSignUp_lambda(w) ==
  LET r == w.stack[Len(w.stack)]
      w1 == [w EXCEPT !.chain.err = r.seen] IN
  IF r.seen = ERR_AUTH_EMAIL_NOT_FOUND
  THEN signUp(w1)
  ELSE cb(w1)

\* The do-while of update() when Requests may hold the closures of
\* connectOrSignUp.  The lambda is library code: when it returns without
\* having invoked the user's callback, update() unregisters the transaction
\* and reads the next message.  update() is left suspended when the user's
\* callback (of the call under way, or of any other transaction) is entered.
RECURSIVE chain_read_loop(_, _, _, _)
chain_read_loop(w, work_done, born, B) ==
  IF w.msgq = <<>>
  THEN { [w EXCEPT !.ret = Returned("update", IF work_done THEN 1 ELSE 0)] }
  ELSE UNION {
         LET h == Head(w.msgq)
             w1 == dispatch([w EXCEPT !.msgq = Tail(@)], h, b, born) IN
         IF w1.crashed THEN {w1}
         ELSE IF w.chain.state = "signin" /\ h = w.chain.signin
         THEN LET w2 == connectOrSignUp_lambda(w1) IN
              IF w2.chain.calls > w1.chain.calls THEN {w2}
              ELSE LET f == w2.stack[Len(w2.stack)] IN
                   chain_read_loop(unregisterRequest(return(w2), f.curl, f.r),
                                   TRUE, f.born, B)
         ELSE IF w.chain.state = "signup" /\ h = w.chain.signup
         THEN {cb(w1)}
         ELSE {w1}
         : b \in B }

\* An application that signs in with connectOrSignUp (one call at a time),
\* reads and writes documents, polls, and whose callbacks do the same.  An
\* id is kept back for the sign-up that a pending sign-in may submit.
Room ==
  next_request_unique_id + (IF chain.state = "signin" THEN 1 ELSE 0) < MaxId

SignUpSubmit ==
  /\ otf # 0
  /\ Room
  /\ Submit

SignUpStart ==
  /\ ~crashed
  /\ otf # 0
  /\ chain.state \in {"idle", "delivered"}
  /\ Attached(World) < MaxTx
  /\ next_request_unique_id + 1 < MaxId
  /\ Commit(connectOrSignUp(World))

SignUpUpdate ==
  /\ ~crashed
  /\ Len(stack) < MaxDepth
  /\ otf # 0
  /\ \E S \in SUBSET Running(World) :
       \E w \in chain_read_loop(multi_perform(World, S), FALSE, {}, SignBodies) :
         Commit(w)

SignUpCallbackReturn ==
  /\ ~crashed
  /\ stack # <<>>
  /\ Top.this = "live"
  /\ \E w \in chain_read_loop(
                 unregisterRequest(return(World), Top.curl, Top.r),
                 TRUE, Top.born, SignBodies) :
       Commit(w)

SignUpNext ==
  \/ Configure
  \/ SignUpSubmit
  \/ SignUpStart
  \/ SignUpUpdate
  \/ SignUpCallbackReturn

SignUpSpec == Init /\ [][SignUpNext]_vars

Date == << "2", "0", "2", "2", "-", "0", "4", "-", "1", "5" >>
Time == << "1", "4", ":", "2", "5", ":", "3", "0" >>
Zulu == Date \o << "T" >> \o Time \o << "Z" >>
ZuluMillis == Date \o << "T" >> \o Time \o << ".", "1", "2", "3", "Z" >>
Lettered ==
  << "a", "b", "c", "d", "-", "e", "f", "-", "g", "h", "T",
     "i", "j", ":", "k", "l", ":", "m", "n", "Z" >>
Blanked == Date \o << " " >> \o Time \o << "Z" >>
Unzoned == Date \o << "T" >> \o Time
Word == << "h", "i" >>
Strings == { Zulu, ZuluMillis, Lettered, Blanked, Unzoned, Word, << >> }

\* the values a document is built from
Leaves == { jstring(Word), jstring(Zulu), jnumber(1), jboolean(TRUE) }
Keys == { "a", "fields" }

\* the values with at most d containers inside one another
RECURSIVE Nested(_)
Nested(d) ==
  IF d = 0 THEN Leaves
  ELSE Leaves
        \cup { jarray(a) : a \in UNION { [1..n -> Nested(d - 1)] : n \in 0..MaxLen } }
        \cup { jobject(f) : f \in UNION { [K -> Nested(d - 1)] : K \in SUBSET Keys } }

\* documents: a field "a" with any value, a field "fields" with a leaf
Docs ==
  LET A == { [x \in {"a"} |-> a] : a \in Nested(MaxNest) }
      F == { [x \in {"fields"} |-> l] : l \in Leaves } IN
  { jobject(f) : f \in { << >> } \cup A \cup F \cup { a @@ g : a \in A, g \in F } }

\* Wire values the service may send: no wire type, an unknown one, a null,
\* arrays with and without values, maps with and without fields, integers
\* whose payload is a decimal string, another string, a number
WireValues ==
  { jnull, jobject(<< >>), jstring(Word),
    member("nullValue", jnull),
    member("geoPointValue", jobject(<< >>)),
    member("arrayValue", jobject(<< >>)),
    member("arrayValue", member("values", jarray(<< >>))),
    member("mapValue", member("fields", jobject(<< >>))),
    member("mapValue", jobject(<< >>)),
    member("integerValue", jstring(<< "1", "2" >>)),
    member("integerValue", jstring(Word)),
    member("integerValue", jnumber(1)),
    member("stringValue", jstring(Zulu)) }

\* the same inside an array, inside a map, and as the field of a document
Wires ==
  WireValues
    \cup { member("arrayValue", member("values", jarray(<< x >>))) : x \in WireValues }
    \cup { member("mapValue", member("fields", member("a", x))) : x \in WireValues }
    \cup { member("fields", member("a", x)) : x \in WireValues }

\* One input is encoded and decoded, or one wire value is decoded: cstep is
\* "document", "string" or "received" at first, then "encoded", then
\* "decoded".
CodecInit ==
  /\ otf = 0
  /\ on_the_fly_request = NoRequests
  /\ free_requests = << >>
  /\ next_request_unique_id = 0
  /\ common_chunk = 0
  /\ login_chunk = 0
  /\ msgq = << >>
  /\ token = 0
  /\ user_id = 0
  /\ stack = << >>
  /\ heap = Heap0
  /\ crashed = FALSE
  /\ ret = NoRet
  /\ pc = "user"
  /\ chain = Chain0
  /\ rq = Request0
  /\ twin = Request0
  /\ phase = "new"
  /\ build = "debug"
  /\ remote = << >>
  /\ script = << >>
  /\ decoded = jnull
  /\ \/ cstep = "document" /\ value \in Docs /\ wire = jnull
     \/ cstep = "string" /\ value \in { jstring(s) : s \in Strings } /\ wire = jnull
     \/ cstep = "received" /\ value = jnull /\ wire \in Wires

\* asDocument(v)
EncodeDocument ==
  /\ cstep = "document"
  /\ wire' = asDocument(value)
  /\ cstep' = "encoded"
  /\ UNCHANGED << session, rq, twin, phase, value, decoded, build, remote,
                  script >>

\* asValue(s)
EncodeValue ==
  /\ cstep = "string"
  /\ wire' = asValue(value)
  /\ cstep' = "encoded"
  /\ UNCHANGED << session, rq, twin, phase, value, decoded, build, remote,
                  script >>

\* fromValue(wire).  Where the behaviour is not defined the call may abort
\* on the assertion of the library, or go on with what it finds behind the
\* end of the object, which may be an empty value.
Decode ==
  /\ cstep \in {"encoded", "received"}
  /\ LET j == fromValue(wire) IN
     IF j.k = "undefined"
     THEN decoded' \in { [k |-> "aborted", v |-> j.v], jobject(<< >>) }
     ELSE decoded' = j
  /\ cstep' = IF cstep = "received" THEN "decoded wire" ELSE "decoded"
  /\ UNCHANGED << session, rq, twin, phase, value, wire, build, remote,
                  script >>

CodecNext ==
  \/ EncodeDocument
  \/ EncodeValue
  \/ Decode

CodecSpec == CodecInit /\ [][CodecNext]_vars

\* C18: a document built from strings, numbers, booleans, nested maps and
\* arrays comes back from fromValue(asDocument(v)) as v.
C18_RoundTrip ==
  (cstep = "decoded" /\ value \in Docs) => decoded = value

\* a document was encoded and decoded whose field holds a map that holds a
\* timestamp string and, under the key "fields", a number
C18_Witness ==
  /\ cstep = "decoded"
  /\ value = member("a", jobject([x \in Keys |->
                                    IF x = "a" THEN jstring(Zulu) ELSE jnumber(1)]))
  /\ wire # value
  /\ decoded = value

\* C19: asValue wraps a string as a timestampValue if and only if it has the
\* form YYYY-MM-DDTHH:MM:SSZ (at least 20 characters, digits in the digit
\* positions, the separators at positions 4, 7, 10, 13 and 16, a Z at the
\* end), every other string as a stringValue, and either way the string
\* decodes to itself.
C19_TimestampIffZuluPattern ==
  LET str == value.v
      pattern ==
        /\ Len(str) >= 20
        /\ \A i \in {1, 2, 3, 4, 6, 7, 9, 10, 12, 13, 15, 16, 18, 19} :
             IsDigit(str[i])
        /\ str[5] = "-" /\ str[8] = "-" /\ str[11] = "T"
        /\ str[14] = ":" /\ str[17] = ":"
        /\ str[Len(str)] = "Z"
  IN (value.k = "string" /\ cstep \in {"encoded", "decoded"}) =>
       /\ wire = IF pattern THEN member("timestampValue", value)
                            ELSE member("stringValue", value)
       /\ cstep = "decoded" => decoded = value

\* C20: fromValue raises for no wire value: without a wire type, or with an
\* unknown one, it gives null; an arrayValue without values, or with none in
\* it, gives the empty array; a mapValue without fields and an integerValue
\* whose payload is no decimal string give a value as well.
C20_DecodeNeverRaises ==
  cstep = "decoded wire" =>
    /\ decoded.k \notin {"raised", "aborted"}
    /\ (wire.k # "object"
          \/ DOMAIN wire.v \subseteq {"nullValue", "geoPointValue"})
         => decoded = jnull
    /\ wire \in { member("arrayValue", jobject(<< >>)),
                  member("arrayValue", member("values", jarray(<< >>))) }
         => decoded = jarray(<< >>)

\* ---------------------------------------------------------- the adapters
\* The Result a callback is handed, or how the call ended instead: k is
\* "result", or "aborted" (a failed assert), "raised" (an exception of the
\* json library), "undefined" (no defined behaviour).
aborted(what) == [k |-> "aborted", v |-> what]
failed(j) == j.k \in {"aborted", "raised", "undefined"}
Outcome(err, j, added_id) ==
  [k |-> "result", err |-> err, j |-> j, added_id |-> added_id]
Fail(f) == [k |-> f.k, err |-> 0, j |-> f, added_id |-> << >>]

\* a json value that json::parse discarded
discarded == [k |-> "discarded", v |-> 0]

\* non-const json::operator[](key) and operator[](0), as far as the value
\* read goes: null becomes a container and yields null, a missing member or
\* element is made and yields null, any other type throws
get_key(j, key) ==
  IF j.k = "null" THEN jnull
  ELSE IF j.k = "object"
  THEN IF key \in DOMAIN j.v THEN j.v[key] ELSE jnull
  ELSE raised("type_error.305")

get_first(j) ==
  IF j.k = "null" THEN jnull
  ELSE IF j.k = "array"
  THEN IF Len(j.v) > 0 THEN j.v[1] ELSE jnull
  ELSE raised("type_error.305")

\* lines 224-250 on a response whose json is a value of the codec: the
\* Result of update(), with j[0] made where update() looked at it
error_detected_in(str_recv) ==
  IF str_recv.text = "empty" THEN TRUE
  ELSE IF str_recv.text # "json" THEN TRUE
  ELSE \/ contains_key(str_recv.j, "error")
       \/ str_recv.j.k = "array" /\ contains_key(get_first(str_recv.j), "error")

Result_of(str_recv) ==
  Outcome(IF error_detected_in(str_recv) THEN 0 - 1 ELSE 0,
          IF str_recv.text = "empty" THEN jnull
          ELSE IF str_recv.text # "json" THEN discarded
          ELSE IF str_recv.j = jarray(<< >>) THEN jarray(<< jnull >>)
          ELSE str_recv.j,
          << >>)

\* idFromPath: what follows the last '/'; without one, the assert, and the
\* whole path where the assert is compiled out
Slashes(path) == { i \in 1..Len(path) : path[i] = "/" }
idFromPath(path) ==
  IF Slashes(path) # {}
  THEN LET pos == CHOOSE i \in Slashes(path) : \A m \in Slashes(path) : m <= i
       IN jstring(SubSeq(path, pos + 1, Len(path)))
  ELSE IF build = "debug" THEN aborted("failed to find / in path")
  ELSE jstring(path)

\* the conversion of a json value to std::string, then idFromPath
idFromPath_of(j) ==
  IF failed(j) THEN j
  ELSE IF j.k # "string" THEN raised("type_error.302")
  ELSE idFromPath(j.v)

\* a read adapter that reports a missing document for every response that
\* has no found in it
Ref_read_pre_cb_missing_by_default(res) ==
  IF res.err # 0 THEN res
  ELSE IF res.j.k # "array" THEN Fail(aborted("result.j.is_array()"))
  ELSE LET j0 == get_first(res.j) IN
       IF contains_key(j0, "found")
       THEN LET d == fromValue(j0.v["found"]) IN
            IF failed(d) THEN Fail(d) ELSE [res EXCEPT !.j = d]
       ELSE [res EXCEPT !.err = ERR_DOC_MISSING]

\* pre_cb of Ref::read (lines 665-679)
Ref_read_pre_cb(res) ==
  IF res.err # 0 THEN res
  ELSE IF res.j.k # "array" /\ build = "debug"
  THEN Fail(aborted("result.j.is_array()"))
  ELSE LET j0 == get_first(res.j) IN
       IF failed(j0) THEN Fail(j0)
       ELSE IF contains_key(j0, "found")
       THEN LET d == fromValue(j0.v["found"]) IN
            IF failed(d) THEN Fail(d) ELSE [res EXCEPT !.j = d]
       ELSE IF contains_key(j0, "missing")
       THEN [res EXCEPT !.err = ERR_DOC_MISSING, !.j = jobject(<< >>)]
       ELSE [res EXCEPT !.j =
               jarray(<< jnull >> \o
                      (IF res.j.k = "array" /\ Len(res.j.v) > 0
                       THEN Tail(res.j.v) ELSE << >>))]

\* an add adapter that takes the whole name for the id
Ref_add_pre_cb_whole_name(res) ==
  IF res.err # 0 THEN res
  ELSE IF ~contains_key(res.j, "name")
  THEN Fail(aborted("result.j.contains(name)"))
  ELSE IF res.j.v["name"].k # "string" THEN Fail(raised("type_error.302"))
  ELSE [res EXCEPT !.added_id = res.j.v["name"].v]

\* pre_cb of Ref::add (lines 689-695)
Ref_add_pre_cb(res) ==
  IF res.err # 0 THEN res
  ELSE IF ~contains_key(res.j, "name") /\ build = "debug"
  THEN Fail(aborted("result.j.contains(name)"))
  ELSE LET id == idFromPath_of(get_key(res.j, "name")) IN
       IF failed(id) THEN Fail(id) ELSE [res EXCEPT !.added_id = id.v]

\* the asserts of the inc adapter (lines 732-737)
inc_asserts(j) ==
  /\ contains_key(j, "writeResults")
  /\ j.v["writeResults"].k = "array"
  /\ Len(j.v["writeResults"].v) = 1
  /\ contains_key(j.v["writeResults"].v[1], "transformResults")
  /\ j.v["writeResults"].v[1].v["transformResults"].k = "array"
  /\ Len(j.v["writeResults"].v[1].v["transformResults"].v) = 1

\* an inc adapter that hands the commit envelope on
Ref_inc_pre_cb_raw(res) ==
  IF res.err # 0 THEN res
  ELSE IF ~inc_asserts(res.j) THEN Fail(aborted("writeResults"))
  ELSE res

\* pre_cb of Ref::inc (lines 728-740)
Ref_inc_pre_cb(res) ==
  IF res.err # 0 THEN res
  ELSE IF ~inc_asserts(res.j) /\ build = "debug"
  THEN Fail(aborted("writeResults"))
  ELSE LET a == get_key(res.j, "writeResults")
           b == IF failed(a) THEN a ELSE get_first(a)
           c == IF failed(b) THEN b ELSE get_key(b, "transformResults")
           d == IF failed(c) THEN c ELSE get_first(c)
           e == IF failed(d) THEN d ELSE fromValue(d) IN
       IF failed(e) THEN Fail(e) ELSE [res EXCEPT !.j = e]

\* one turn of the loop of the query adapter (lines 815-821): the decoded
\* document with its id under _doc_id, or nothing for an element without
\* document
query_element(el) ==
  IF ~contains_key(el, "document") THEN << >>
  ELSE LET jdoc == el.v["document"]
           d == fromValue(jdoc)
           name == at(jdoc, "name")
           id == idFromPath_of(name) IN
       IF failed(d) THEN << d >>
       ELSE IF d.k \notin {"null", "object"} THEN << raised("type_error.305") >>
       ELSE IF failed(id) THEN << id >>
       ELSE << jobject((IF d.k = "object"
                        THEN [x \in DOMAIN d.v \ {"_doc_id"} |-> d.v[x]]
                        ELSE << >>) @@ [x \in {"_doc_id"} |-> id]) >>

RECURSIVE query_elements(_)
query_elements(els) ==
  IF els = << >> THEN << >>
  ELSE query_element(Head(els)) \o query_elements(Tail(els))

\* a query adapter that hands every element on, decoded or not
Ref_query_pre_cb_keeping_all(res) ==
  IF res.err = 0 /\ res.j.k = "array"
  THEN LET rs == [i \in 1..Len(res.j.v) |->
                    IF query_element(res.j.v[i]) = << >> THEN jnull
                    ELSE query_element(res.j.v[i])[1]] IN
       IF \E i \in 1..Len(rs) : failed(rs[i])
       THEN Fail(first_bad(rs, jnull))
       ELSE [res EXCEPT !.j = jarray(rs)]
  ELSE res

\* pre_cb of Ref::query (lines 810-824)
Ref_query_pre_cb(res) ==
  IF res.err = 0 /\ res.j.k = "array"
  THEN LET rs == query_elements(res.j.v) IN
       IF \E i \in 1..Len(rs) : failed(rs[i])
       THEN Fail(rs[CHOOSE i \in 1..Len(rs) :
                      failed(rs[i]) /\ \A m \in 1..(i - 1) : ~failed(rs[m])])
       ELSE [res EXCEPT !.j = jarray(rs)]
  ELSE res

\* r->callback(r->res) for the operation the Request was made by: read,
\* add, inc and query go through their adapter, the others hand the Result
\* to the user's callback as it is
Labels == { "read", "del", "add", "write", "inc", "list", "patch", "query" }
pre_cb(label, res) ==
  IF label = "read" THEN Ref_read_pre_cb(res)
  ELSE IF label = "add" THEN Ref_add_pre_cb(res)
  ELSE IF label = "inc" THEN Ref_inc_pre_cb(res)
  ELSE IF label = "query" THEN Ref_query_pre_cb(res)
  ELSE res

\* Paths and names: a document path, the name the service gives it, a name
\* without a '/'
Path == << "c", "/", "d" >>
Name == << "r", "/", "c", "/", "d" >>
OtherName == << "r", "/", "c", "/", "e" >>
Bare == << "d" >>

\* the document resource the service answers with: name and fields
Stored(name, doc) == jobject(asDocument(doc).v @@ [x \in {"name"} |-> jstring(name)])

\* documents the remote store may hold
Held ==
  { jobject(<< >>),
    member("a", jnumber(1)),
    jobject([x \in {"a", "_doc_id"} |->
               IF x = "a" THEN jarray(<< jstring(Zulu) >>) ELSE jstring(Word)]) }

\* Responses a transaction may complete with, doc being in the store:
\* nothing, no json, errors, the answers of batchGet, of a document request,
\* of commit and of runQuery, well formed and not
Replies(doc) ==
  { Text("empty", jnull), Text("garbage", jnull) }
   \cup { Text("json", j) : j \in
     { member("error", member("code", jnumber(ERR_DOC_MISSING))),
       jarray(<< member("error", jobject(<< >>)) >>),
       jarray(<< member("found", Stored(Name, doc)) >>),
       jarray(<< member("found", member("name", jstring(Name))) >>),
       jarray(<< member("found", member("mapValue", jobject(<< >>))) >>),
       jarray(<< member("missing", jstring(Name)) >>),
       jarray(<< member("readTime", jstring(Zulu)) >>),
       jarray(<< >>),
       jnull,
       jobject(<< >>),
       Stored(Name, doc),
       Stored(Bare, doc),
       asDocument(doc),
       member("name", jnumber(1)),
       member("writeResults", jarray(<< member("updateTime", jstring(Zulu)) >>)),
       member("writeResults",
              jarray(<< member("transformResults",
                               jarray(<< member("doubleValue", jnumber(1)) >>)) >>)),
       member("writeResults",
              jarray(<< member("transformResults",
                               jarray(<< member("integerValue", jnumber(1)) >>)) >>)),
       member("writeResults", jarray(<< >>)),
       jarray(<< member("document", Stored(Name, doc)),
                 member("readTime", jstring(Zulu)),
                 member("document", Stored(OtherName, jobject(<< >>))) >>),
       jarray(<< member("document", member("name", jstring(OtherName))) >>),
       jarray(<< member("document", asDocument(doc)) >>),
       jarray(<< member("document", Stored(Bare, doc)) >>) } }

\* One transaction of one operation completes with one response: update()
\* makes the Result and calls the Request's callback.  script is the label
\* of the operation, wire the response, decoded what the user's callback is
\* handed (or how the call ended instead).
AdapterInit ==
  /\ otf = 0
  /\ on_the_fly_request = NoRequests
  /\ free_requests = << >>
  /\ next_request_unique_id = 0
  /\ common_chunk = 0
  /\ login_chunk = 0
  /\ msgq = << >>
  /\ token = 0
  /\ user_id = 0
  /\ stack = << >>
  /\ heap = Heap0
  /\ crashed = FALSE
  /\ ret = NoRet
  /\ pc = "user"
  /\ chain = Chain0
  /\ rq = Request0
  /\ twin = Request0
  /\ phase = "new"
  /\ remote = << >>
  /\ build \in {"debug", "release"}
  /\ script \in Labels
  /\ value \in Held
  /\ wire \in Replies(value)
  /\ decoded = Outcome(0 - 1, jnull, << >>)
  /\ cstep = "received"

\* Where the behaviour is not defined the call may end the process or go on
\* with what it finds in memory.
Dispatch ==
  /\ cstep = "received"
  /\ LET o == pre_cb(script, Result_of(wire)) IN
     IF o.k = "undefined"
     THEN decoded' \in { [o EXCEPT !.k = "aborted"], [o EXCEPT !.k = "garbage"] }
     ELSE decoded' = o
  /\ cstep' = "delivered"
  /\ UNCHANGED << session, rq, twin, phase, value, wire, build, remote, script >>

AdapterNext == Dispatch

AdapterSpec == AdapterInit /\ [][AdapterNext]_vars

C25_IncAdapter ==
  (cstep = "delivered" /\ script = "inc" /\ decoded.k = "result") =>
    LET r == Result_of(wire) IN
    /\ r.err # 0 => decoded = r
    /\ (r.err = 0 /\ inc_asserts(r.j)) =>
         /\ decoded.err = 0
         /\ decoded.j =
              fromValue(r.j.v["writeResults"].v[1].v["transformResults"].v[1])
         /\ decoded.j # r.j
    /\ wire = Text("json",
                   member("writeResults",
                     jarray(<< member("transformResults",
                                 jarray(<< member("doubleValue", jnumber(1)) >>)) >>)))
         => decoded.j = jnumber(1)

\* an inc has handed its callback the number the commit reported
C25_Witness ==
  /\ cstep = "delivered"
  /\ script = "inc"
  /\ wire.text = "json"
  /\ inc_asserts(wire.j)
  /\ decoded = Outcome(0, jnumber(1), << >>)

\* C26: when the create transaction of an add succeeds, added_id is the last
\* '/'-delimited segment of the name in the response (it has no '/', it ends
\* the name, and what precedes it in the name, if anything, ends with '/');
\* when it fails, added_id is empty and error and value are handed on as
\* update() left them.
C26_AddAdapter ==
  (cstep = "delivered" /\ script = "add" /\ decoded.k = "result") =>
    LET r == Result_of(wire) IN
    /\ r.err # 0 => (decoded = r /\ decoded.added_id = << >>)
    /\ r.err = 0 =>
         LET name == r.j.v["name"].v
             id == decoded.added_id
             n == Len(name) - Len(id) IN
         /\ decoded.err = 0
         /\ decoded.j = r.j
         /\ Slashes(id) = {}
         /\ n >= 0
         /\ SubSeq(name, n + 1, Len(name)) = id
         /\ n > 0 => name[n] = "/"

\* an add has handed its callback the id d for the name r/c/d
C26_Witness ==
  /\ cstep = "delivered"
  /\ script = "add"
  /\ wire = Text("json", Stored(Name, value))
  /\ decoded.k = "result"
  /\ decoded.err = 0
  /\ decoded.added_id = << "d" >>

\* C29: when the transaction of a query succeeds with an array, the
\* callback's structured value is an array that holds, in the order of the
\* response, one decoded document for each element that carries document
\* and nothing for the others, each with the last segment of its name under
\* _doc_id; otherwise the Result is handed on as update() left it.
C29_QueryAdapter ==
  (cstep = "delivered" /\ script = "query" /\ decoded.k = "result") =>
    LET r == Result_of(wire)
        tagged(doc, id) ==
          jobject([x \in DOMAIN doc.v \cup {"_doc_id"} |->
                     IF x = "_doc_id" THEN jstring(id) ELSE doc.v[x]]) IN
    /\ (r.err # 0 \/ r.j.k # "array") => decoded = r
    /\ (r.err = 0 /\ r.j.k = "array") =>
         /\ decoded.err = 0
         /\ decoded.j.k = "array"
         /\ Len(decoded.j.v) =
              Cardinality({ i \in 1..Len(r.j.v) : contains_key(r.j.v[i], "document") })
    /\ wire = Text("json",
                   jarray(<< member("document", Stored(Name, value)),
                             member("readTime", jstring(Zulu)),
                             member("document", Stored(OtherName, jobject(<< >>))) >>))
         => decoded.j = jarray(<< tagged(value, << "d" >>),
                                  tagged(jobject(<< >>), << "e" >>) >>)
    /\ wire = Text("json", jarray(<< >>)) => decoded.j = jarray(<< >>)

\* a query has handed its callback two documents out of a response of three
\* elements, the first with a field and with the id d
C29_Witness ==
  /\ cstep = "delivered"
  /\ script = "query"
  /\ value = member("a", jnumber(1))
  /\ wire.text = "json"
  /\ wire.j.k = "array"
  /\ Len(wire.j.v) = 3
  /\ decoded.k = "result"
  /\ Len(decoded.j.v) = 2
  /\ decoded.j.v[1] =
       jobject([x \in {"a", "_doc_id"} |->
                  IF x = "a" THEN jnumber(1) ELSE jstring(<< "d" >>)])

\* ---------------------------------------------------------------------------
\* Ref::query: the structured query that is sent.
\* Text of the user (paths, field names, string values) is a sequence of
\* characters; the keywords the library writes are strings.

MaxConds == 2
MaxOrder == 2

\* doc_root stands for projects/<id>/databases/(default)/documents/
doc_root == << "r", "/" >>

Operators ==
  { "Equal", "NotEqual", "GreaterThan", "GreaterThanOrEqual", "LessThan",
    "LessThanOrEqual", "ArrayContains", "ArrayContainsAny", "In", "NotIn" }

conditionOperatorName(op) ==
  CASE op = "Equal" -> jstring("EQUAL")
    [] op = "NotEqual" -> jstring("NOT_EQUAL")
    [] op = "GreaterThan" -> jstring("GREATER_THAN")
    [] op = "GreaterThanOrEqual" -> jstring("GREATER_THAN_OR_EQUAL")
    [] op = "LessThan" -> jstring("LESS_THAN")
    [] op = "LessThanOrEqual" -> jstring("LESS_THAN_OR_EQUAL")
    [] op = "ArrayContains" -> jstring("ARRAY_CONTAINS")
    [] op = "ArrayContainsAny" -> jstring("ARRAY_CONTAINS_ANY")
    [] op = "In" -> jstring("IN")
    [] op = "NotIn" -> jstring("NOT_IN")
    [] OTHER -> IF build = "debug" THEN aborted("Invalid operator")
                ELSE jstring("EQUAL")

splitParentAndId(full_path) ==
  IF Slashes(full_path) # {}
  THEN LET pos == CHOOSE i \in Slashes(full_path) :
                    \A m \in Slashes(full_path) : m <= i
       IN [path |-> SubSeq(full_path, 1, pos - 1),
           id |-> SubSeq(full_path, pos + 1, Len(full_path))]
  ELSE [path |-> << >>, id |-> full_path]

to_json_OrderBy(order) ==
  jobject([x \in {"field", "direction"} |->
    IF x = "field" THEN member("fieldPath", jstring(order.field_name))
    ELSE IF order.direction = "DESCENDING" THEN jstring("DESCENDING")
    ELSE jstring("ASCENDING")])

to_json_Condition(cond) ==
  member("fieldFilter",
    jobject([x \in {"field", "op", "value"} |->
      IF x = "field" THEN member("fieldPath", jstring(cond.field_name))
      ELSE IF x = "op" THEN conditionOperatorName(cond.op)
      ELSE asValue(cond.ref_value)]))

\* a structured query that sends limit whenever it is not negative
Ref_query_jq_limit_zero(doc_id, query) ==
  LET parts == splitParentAndId(doc_id)
      from == [x \in {"from"} |-> member("collectionId", jstring(parts.id))]
      where ==
        IF query.conditions # << >>
        THEN [x \in {"where"} |->
               member("compositeFilter",
                 jobject([y \in {"filters", "op"} |->
                   IF y = "filters"
                   THEN jarray([i \in 1..Len(query.conditions) |->
                                  to_json_Condition(query.conditions[i])])
                   ELSE jstring("AND")]))]
        ELSE << >>
      orderBy ==
        IF query.order_by # << >>
        THEN [x \in {"orderBy"} |->
               jarray([i \in 1..Len(query.order_by) |->
                         to_json_OrderBy(query.order_by[i])])]
        ELSE << >>
      limit ==
        IF query.limit >= 0 THEN [x \in {"limit"} |-> jnumber(query.limit)]
        ELSE << >>
  IN jobject([x \in {"structuredQuery", "parent"} |->
       IF x = "parent" THEN jstring(doc_root \o parts.path)
       ELSE jobject(from @@ where @@ orderBy @@ limit)])

\* jq of Ref::query
Ref_query_jq(doc_id, query) ==
  LET parts == splitParentAndId(doc_id)
      from == [x \in {"from"} |-> member("collectionId", jstring(parts.id))]
      where ==
        IF query.conditions # << >>
        THEN [x \in {"where"} |->
               member("compositeFilter",
                 jobject([y \in {"filters", "op"} |->
                   IF y = "filters"
                   THEN jarray([i \in 1..Len(query.conditions) |->
                                  to_json_Condition(query.conditions[i])])
                   ELSE jstring("AND")]))]
        ELSE << >>
      orderBy ==
        IF query.order_by # << >>
        THEN [x \in {"orderBy"} |->
               jarray([i \in 1..Len(query.order_by) |->
                         to_json_OrderBy(query.order_by[i])])]
        ELSE << >>
      limit ==
        IF query.limit > 0 THEN [x \in {"limit"} |-> jnumber(query.limit)]
        ELSE << >>
  IN jobject([x \in {"structuredQuery", "parent"} |->
       IF x = "parent" THEN jstring(doc_root \o parts.path)
       ELSE jobject(from @@ where @@ orderBy @@ limit)])

\* What a call of Ref hands to allocRequest
Rpc(url_suffix, jbody, label, flags) ==
  [url_suffix |-> url_suffix, jbody |-> jbody, label |-> label, flags |-> flags]

Ref_query(doc_id, query) ==
  Rpc(splitParentAndId(doc_id).path \o << ":runQuery" >>,
      Ref_query_jq(doc_id, query), "query", 0)

\* Queries of the user
Conditions ==
  { [field_name |-> << "a" >>, op |-> op, ref_value |-> jnumber(1)] : op \in Operators }
    \cup { [field_name |-> << "b" >>, op |-> "Equal", ref_value |-> jstring(Zulu)] }
OrderBys ==
  { [field_name |-> << "a" >>, direction |-> d] : d \in {"ASCENDING", "DESCENDING"} }
UpTo(S, n) == UNION { [1..m -> S] : m \in 0..n }
Queries ==
  [conditions : UpTo(Conditions, MaxConds),
   order_by : UpTo(OrderBys, MaxOrder),
   first : {0, 1},
   limit : {0 - 1, 0, 1, 2}]
Collections == { << "c" >>, << "c", "/", "d", "/", "e" >> }

QueryInit ==
  /\ otf = 0
  /\ on_the_fly_request = NoRequests
  /\ free_requests = << >>
  /\ next_request_unique_id = 0
  /\ common_chunk = 0
  /\ login_chunk = 0
  /\ msgq = << >>
  /\ token = 0
  /\ user_id = 0
  /\ stack = << >>
  /\ heap = Heap0
  /\ crashed = FALSE
  /\ ret = NoRet
  /\ pc = "user"
  /\ chain = Chain0
  /\ rq = Request0
  /\ twin = Request0
  /\ phase = "new"
  /\ remote = << >>
  /\ build \in {"debug", "release"}
  /\ script \in Collections
  /\ value \in Queries
  /\ wire = jnull
  /\ decoded = jnull
  /\ cstep = "idle"

\* the user calls query on the collection script with the Query value
Query ==
  /\ cstep = "idle"
  /\ wire' = Ref_query(script, value)
  /\ cstep' = "sent"
  /\ UNCHANGED << session, rq, twin, phase, value, decoded, build, remote, script >>

QueryNext == Query

QuerySpec == QueryInit /\ [][QueryNext]_vars

\* C28: the structured query has where iff the Query has conditions; where
\* is then one composite filter with op AND whose filters are, in the order
\* of the conditions, field filters with the field, the name of the operator
\* and the encoded value of each; orderBy keeps the order of the list and
\* has direction DESCENDING exactly for the descending entries; limit is
\* there iff limit > 0; first (or an offset) is never there.
C28_QueryCompilation ==
  cstep = "sent" =>
    LET sq == wire.jbody.v["structuredQuery"]
        has(key) == key \in DOMAIN sq.v
        names == [Equal |-> "EQUAL", NotEqual |-> "NOT_EQUAL",
                  GreaterThan |-> "GREATER_THAN",
                  GreaterThanOrEqual |-> "GREATER_THAN_OR_EQUAL",
                  LessThan |-> "LESS_THAN",
                  LessThanOrEqual |-> "LESS_THAN_OR_EQUAL",
                  ArrayContains |-> "ARRAY_CONTAINS",
                  ArrayContainsAny |-> "ARRAY_CONTAINS_ANY",
                  In |-> "IN", NotIn |-> "NOT_IN"] IN
    /\ has("where") <=> Len(value.conditions) > 0
    /\ has("where") =>
         /\ DOMAIN sq.v["where"].v = {"compositeFilter"}
         /\ LET cf == sq.v["where"].v["compositeFilter"] IN
            /\ DOMAIN cf.v = {"filters", "op"}
            /\ cf.v["op"] = jstring("AND")
            /\ cf.v["filters"].k = "array"
            /\ Len(cf.v["filters"].v) = Len(value.conditions)
            /\ \A i \in 1..Len(value.conditions) :
                 LET c == value.conditions[i]
                     f == cf.v["filters"].v[i] IN
                 /\ DOMAIN f.v = {"fieldFilter"}
                 /\ f.v["fieldFilter"].v["field"] = member("fieldPath", jstring(c.field_name))
                 /\ f.v["fieldFilter"].v["op"] = jstring(names[c.op])
                 /\ f.v["fieldFilter"].v["value"] = asValue(c.ref_value)
    /\ has("orderBy") <=> Len(value.order_by) > 0
    /\ has("orderBy") =>
         /\ Len(sq.v["orderBy"].v) = Len(value.order_by)
         /\ \A i \in 1..Len(value.order_by) :
              LET o == value.order_by[i]
                  e == sq.v["orderBy"].v[i] IN
              /\ e.v["field"] = member("fieldPath", jstring(o.field_name))
              /\ (e.v["direction"] = jstring("DESCENDING")) <=> (o.direction = "DESCENDING")
              /\ e.v["direction"] \in {jstring("DESCENDING"), jstring("ASCENDING")}
    /\ has("limit") <=> value.limit > 0
    /\ has("limit") => sq.v["limit"] = jnumber(value.limit)
    /\ ~has("first")
    /\ ~has("offset")

\* a query with two conditions, two orders, a limit and a first was sent
C28_Witness ==
  /\ cstep = "sent"
  /\ Len(value.conditions) = 2
  /\ value.conditions[1].op = "LessThan"
  /\ value.conditions[2].op = "Equal"
  /\ value.order_by = << [field_name |-> << "a" >>, direction |-> "DESCENDING"],
                         [field_name |-> << "a" >>, direction |-> "ASCENDING"] >>
  /\ value.limit = 2
  /\ value.first = 1
  /\ DOMAIN wire.jbody.v["structuredQuery"].v = {"from", "where", "orderBy", "limit"}

\* ---------------------------------------------------------------------------
\* timeToISO8601 and ISO8601ToTime.
\* The calendar is the part of it around the epoch: December 1969 to
\* February 1970, each month with the day (counted from the epoch) it starts
\* on.  A time zone is its offset from UTC in seconds, without daylight
\* saving.

t0 == 1000000

Months ==
  { [year |-> 1969, mon |-> 11, first |-> 0 - 31, days |-> 31],
    [year |-> 1970, mon |-> 0, first |-> 0, days |-> 31],
    [year |-> 1970, mon |-> 1, first |-> 31, days |-> 28] }

gmtime_r(t) ==
  LET d == t \div 86400
      s == t % 86400
      m == CHOOSE x \in Months : x.first <= d /\ d < x.first + x.days
  IN [tm_year |-> m.year - 1900, tm_mon |-> m.mon, tm_mday |-> d - m.first + 1,
      tm_hour |-> s \div 3600, tm_min |-> (s % 3600) \div 60, tm_sec |-> s % 60]

localtime_r(t, tz) == gmtime_r(t + tz)

\* seconds since the epoch of the calendar time tm taken as UTC
timegm(tm) ==
  LET m == CHOOSE x \in Months : x.year = tm.tm_year + 1900 /\ x.mon = tm.tm_mon
  IN (m.first + tm.tm_mday - 1) * 86400
       + tm.tm_hour * 3600 + tm.tm_min * 60 + tm.tm_sec

\* mktime with tm_isdst = 0: tm is local standard time
mktime(tm, tz) == timegm(tm) - tz

\* n written with w digits
pad(n, w) == [i \in 1..w |-> Digits[((n \div (10 ^ (w - i))) % 10) + 1]]

\* strftime with "%FT%TZ"
strftime(tm) ==
  pad(tm.tm_year + 1900, 4) \o << "-" >> \o pad(tm.tm_mon + 1, 2) \o << "-" >>
    \o pad(tm.tm_mday, 2) \o << "T" >> \o pad(tm.tm_hour, 2) \o << ":" >>
    \o pad(tm.tm_min, 2) \o << ":" >> \o pad(tm.tm_sec, 2) \o << "Z" >>

timeToISO8601(utc_time) == jstring(strftime(gmtime_r(utc_time)))

\* "%04d-%02d-%02dT%02d:%02d:%02d.%dZ": a number of at most so many digits
\* (0: as many as there are), or a character to be matched
number(width) == [d |-> TRUE, width |-> width, c |-> ""]
literal(char) == [d |-> FALSE, width |-> 0, c |-> char]
Format ==
  << number(4), literal("-"), number(2), literal("-"), number(2), literal("T"),
     number(2), literal(":"), number(2), literal(":"), number(2),
     literal("."), number(0), literal("Z") >>

\* how many digits str has from pos on, at most width of them
RECURSIVE digits_at(_, _, _)
digits_at(str, pos, width) ==
  IF width = 0 \/ pos > Len(str) \/ ~IsDigit(str[pos]) THEN 0
  ELSE 1 + digits_at(str, pos + 1, width - 1)

\* sscanf: the numbers assigned until the input stops matching the format
RECURSIVE sscanf_from(_, _, _, _)
sscanf_from(str, pos, i, got) ==
  IF i > Len(Format) THEN got
  ELSE IF Format[i].d
  THEN LET n == digits_at(str, pos, IF Format[i].width = 0 THEN Len(str)
                                    ELSE Format[i].width)
       IN IF n = 0 THEN got
          ELSE sscanf_from(str, pos + n, i + 1,
                           Append(got, atoi(SubSeq(str, pos, pos + n - 1))))
  ELSE IF pos <= Len(str) /\ str[pos] = Format[i].c
  THEN sscanf_from(str, pos + 1, i + 1, got)
  ELSE got

sscanf(str) == sscanf_from(str, 1, 1, << >>)

\* ISO8601ToTime(j, out_time_t) in the zone tz: whether it succeeded, and
\* what it stored
ISO8601ToTime(j, tz) ==
  IF j.k # "string" THEN [ok |-> FALSE]
  ELSE IF j.v = << >> THEN [ok |-> FALSE]
  ELSE LET got == sscanf(j.v) IN
       IF Len(got) # 6 THEN [ok |-> FALSE]
       ELSE LET tm == [tm_year |-> got[1] - 1900, tm_mon |-> got[2] - 1,
                       tm_mday |-> got[3], tm_hour |-> got[4],
                       tm_min |-> got[5], tm_sec |-> got[6]]
                time_stamp == mktime(tm, tz)
                gmt == gmtime_r(t0)
                gml == localtime_r(t0, tz)
                delta == gml.tm_hour - gmt.tm_hour
            IN [ok |-> TRUE, out |-> time_stamp + delta * 3600]

\* Times of the first second, the last second and some in between of the
\* day before the epoch, its first day, the day of t0, and the days around
\* the end of January
Days == { 0 - 1, 0, 11, 30, 31 }
SecondsOfDay == { 0, 1, 59, 60, 3599, 3600, 49600, 86399 }
Times == { d * 86400 + s : d \in Days, s \in SecondsOfDay }

\* UTC, whole hours west and east, hours and a half or three quarters, and
\* offsets that put local noon UTC on the next day
Zones ==
  { 0, 3600, 0 - 18000, 0 - 39600, 36000, 19800, 20700, 0 - 34200,
    39600, 43200, 50400 }

TimeInit ==
  /\ otf = 0
  /\ on_the_fly_request = NoRequests
  /\ free_requests = << >>
  /\ next_request_unique_id = 0
  /\ common_chunk = 0
  /\ login_chunk = 0
  /\ msgq = << >>
  /\ token = 0
  /\ user_id = 0
  /\ stack = << >>
  /\ heap = Heap0
  /\ crashed = FALSE
  /\ ret = NoRet
  /\ pc = "user"
  /\ chain = Chain0
  /\ rq = Request0
  /\ twin = Request0
  /\ phase = "new"
  /\ remote = << >>
  /\ build = "debug"
  /\ script = << >>
  /\ value \in [utc_time : Times, tz : Zones]
  /\ wire = jnull
  /\ decoded = [ok |-> FALSE]
  /\ cstep = "idle"

TimeEncode ==
  /\ cstep = "idle"
  /\ wire' = timeToISO8601(value.utc_time)
  /\ cstep' = "encoded"
  /\ UNCHANGED << session, rq, twin, phase, value, decoded, build, remote, script >>

TimeDecode ==
  /\ cstep = "encoded"
  /\ decoded' = ISO8601ToTime(wire, value.tz)
  /\ cstep' = "decoded"
  /\ UNCHANGED << session, rq, twin, phase, value, wire, build, remote, script >>

TimeNext == TimeEncode \/ TimeDecode

TimeSpec == TimeInit /\ [][TimeNext]_vars

\* C30: for every time t in epoch seconds and every offset of the local time
\* zone, ISO8601ToTime(timeToISO8601(t)) succeeds and stores t.
C30_TimestampRoundTrip ==
  cstep = "decoded" => decoded = [ok |-> TRUE, out |-> value.utc_time]

\* ---------------------------------------------------------------------------
\* The operations of Ref as transactions, and a remote store that serves
\* them.

RPC_FLAG_DELETE == 1
RPC_FLAG_GET == 8
RPC_FLAG_PATCH == 16

\* url_root stands for the address of the documents of the project
url_root == << "https://documents" >>

\* an object with the members of f, and key: val
with(f, key, val) ==
  [x \in DOMAIN f \cup {key} |-> IF x = key THEN val ELSE f[x]]
without(f, key) == [x \in DOMAIN f \ {key} |-> f[x]]

\* a child that joins the two paths without a separator
Ref_child_unseparated(doc_id, subpath) ==
  IF subpath = << >> /\ build = "debug" THEN aborted("!subpath.empty()")
  ELSE doc_id \o subpath

\* Ref::child
Ref_child(doc_id, subpath) ==
  IF subpath = << >> /\ build = "debug" THEN aborted("!subpath.empty()")
  ELSE doc_id \o << "/" >> \o subpath

Ref_read(doc_id) ==
  Rpc(<< ":batchGet" >>,
      member("documents", jarray(<< jstring(doc_root \o doc_id) >>)),
      "read", 0)

\* a del that asks for the document instead
Ref_del_as_get(doc_id) == Rpc(doc_id, jnull, "del", RPC_FLAG_GET)

Ref_del(doc_id) == Rpc(doc_id, jnull, "del", RPC_FLAG_DELETE)

Ref_add(doc_id, j) == Rpc(doc_id, asDocument(j), "add", 0)

\* a write that names the root of the documents
Ref_write_at_root(doc_id, j) ==
  LET jDocument == jobject(with(asDocument(j).v, "name", jstring(doc_root)))
  IN Rpc(<< ":commit" >>, member("writes", member("update", jDocument)), "write", 0)

Ref_write(doc_id, j) ==
  LET jDocument == jobject(with(asDocument(j).v, "name", jstring(doc_root \o doc_id)))
  IN Rpc(<< ":commit" >>, member("writes", member("update", jDocument)), "write", 0)

\* an inc that always adds one
Ref_inc_by_one(doc_id, field_name, val) ==
  Rpc(<< ":commit" >>,
      member("writes",
        jarray(<< member("transform",
          jobject([x \in {"document", "fieldTransforms"} |->
            IF x = "document" THEN jstring(doc_root \o doc_id)
            ELSE jarray(<< jobject([y \in {"fieldPath", "increment"} |->
                   IF y = "fieldPath" THEN jstring(field_name)
                   ELSE member("doubleValue", jnumber(1))]) >>)])) >>)),
      "inc", 0)

\* field_name is one word of the body and of the url
Ref_inc(doc_id, field_name, val) ==
  Rpc(<< ":commit" >>,
      member("writes",
        jarray(<< member("transform",
          jobject([x \in {"document", "fieldTransforms"} |->
            IF x = "document" THEN jstring(doc_root \o doc_id)
            ELSE jarray(<< jobject([y \in {"fieldPath", "increment"} |->
                   IF y = "fieldPath" THEN jstring(field_name)
                   ELSE member("doubleValue", jnumber(val))]) >>)])) >>)),
      "inc", 0)

\* a patch that names the field in the body only
Ref_patch_without_mask(doc_id, field_name, new_value) ==
  Rpc(doc_id, asDocument(member(field_name, new_value)), "patch", RPC_FLAG_PATCH)

Ref_patch(doc_id, field_name, new_value) ==
  LET url == doc_id \o << "?updateMask.fieldPaths=", field_name,
                          "&mask.fieldPaths=", field_name >>
  IN Rpc(url, asDocument(member(field_name, new_value)), "patch", RPC_FLAG_PATCH)

\* url_suffix[0] == ':'.  A url is the sequence of its words; these are the
\* words that begin with ':' (the first character of an empty suffix is the
\* terminating 0)
Colon == { ":", ":batchGet", ":commit", ":runQuery" }
starts_with_colon(url_suffix) == url_suffix # << >> /\ url_suffix[1] \in Colon

\* an allocRequest that puts "/" before every suffix
allocRequest_url_always_separated(url_suffix, flags) ==
  IF has_flag(flags, RPC_FLAG_CONNECT) THEN url_suffix
  ELSE url_root \o << "/" >> \o url_suffix

\* allocRequest, lines 275-282: the full url
allocRequest_url(url_suffix, flags) ==
  IF has_flag(flags, RPC_FLAG_CONNECT) THEN url_suffix
  ELSE IF starts_with_colon(url_suffix) THEN url_root \o url_suffix
  ELSE url_root \o << "/" >> \o url_suffix

\* allocRequest and CurlPrepareRequest: the url, the method and the body
\* that go out for the transaction rpc
Sent(rpc) ==
  [url |-> allocRequest_url(rpc.url_suffix, rpc.flags),
   method |-> IF has_flag(rpc.flags, RPC_FLAG_DELETE) THEN "DELETE"
              ELSE IF has_flag(rpc.flags, RPC_FLAG_PATCH) THEN "PATCH"
              ELSE IF rpc.jbody # jnull /\ ~has_flag(rpc.flags, RPC_FLAG_GET)
              THEN "POST"
              ELSE "GET",
   body |-> rpc.jbody]

\* Result::get: whether it stored something, and what
Result_get(res) ==
  IF res.err # 0 THEN [ok |-> FALSE, obj |-> jnull]
  ELSE [ok |-> TRUE, obj |-> res.j]

\* The store: the fields of the documents it holds, by resource name.
store_put(store, name, fields) == with(store, name, fields)
store_drop(store, name) == without(store, name)

\* a field path of the service: the words between the dots
FieldPath(word) == IF word = "m.a" THEN << "m", "a" >> ELSE << word >>

\* the fields of the map under key in fields, none when there is no map
fields_under(fields, key) ==
  IF key \in DOMAIN fields.v /\ contains_key(fields.v[key], "mapValue")
     /\ contains_key(fields.v[key].v["mapValue"], "fields")
  THEN fields.v[key].v["mapValue"].v["fields"]
  ELSE jobject(<< >>)

RECURSIVE has_field(_, _)
has_field(fields, path) ==
  IF Len(path) = 1 THEN Head(path) \in DOMAIN fields.v
  ELSE has_field(fields_under(fields, Head(path)), Tail(path))

RECURSIVE field_at(_, _)
field_at(fields, path) ==
  IF Len(path) = 1 THEN fields.v[Head(path)]
  ELSE field_at(fields_under(fields, Head(path)), Tail(path))

RECURSIVE with_field(_, _, _)
with_field(fields, path, val) ==
  IF Len(path) = 1 THEN jobject(with(fields.v, Head(path), val))
  ELSE jobject(with(fields.v, Head(path),
         member("mapValue",
           member("fields",
             with_field(fields_under(fields, Head(path)), Tail(path), val)))))

RECURSIVE without_field(_, _)
without_field(fields, path) ==
  IF ~has_field(fields, path) THEN fields
  ELSE IF Len(path) = 1 THEN jobject(without(fields.v, Head(path)))
  ELSE jobject(with(fields.v, Head(path),
         member("mapValue",
           member("fields",
             without_field(fields_under(fields, Head(path)), Tail(path))))))

\* the number in a typed value, 0 when it is none
number_of(val) ==
  IF contains_key(val, "doubleValue") /\ val.v["doubleValue"].k = "number"
  THEN val.v["doubleValue"].v
  ELSE 0

\* the document resource of the answers
Resource(name, fields) ==
  jobject([x \in {"name", "fields", "updateTime"} |->
    IF x = "name" THEN jstring(name)
    ELSE IF x = "fields" THEN fields
    ELSE jstring(Zulu)])

\* one write of a commit: the store after it, and its writeResult
apply_write(store, write) ==
  IF contains_key(write, "update")
  THEN [store |-> store_put(store, write.v["update"].v["name"].v,
                            write.v["update"].v["fields"]),
        res |-> member("updateTime", jstring(Zulu))]
  ELSE LET tr == write.v["transform"]
           name == tr.v["document"].v
           ft == tr.v["fieldTransforms"].v[1]
           path == FieldPath(ft.v["fieldPath"].v)
           old == IF name \in DOMAIN store THEN store[name] ELSE jobject(<< >>)
           new == member("doubleValue",
                    jnumber((IF has_field(old, path)
                             THEN number_of(field_at(old, path)) ELSE 0)
                            + number_of(ft.v["increment"])))
       IN [store |-> store_put(store, name, with_field(old, path, new)),
           res |-> jobject([x \in {"updateTime", "transformResults"} |->
                     IF x = "updateTime" THEN jstring(Zulu)
                     ELSE jarray(<< new >>)])]

\* the resource path of a url: what follows url_root and its '/', up to the
\* query
path_of(url) ==
  LET rest == SubSeq(url, Len(url_root) + 1, Len(url))
      from == IF rest # << >> /\ rest[1] = "/" THEN 2 ELSE 1
      marks == { i \in 1..Len(rest) :
                   rest[i] \in {"?updateMask.fieldPaths=", "&mask.fieldPaths="} }
      to == IF marks = {} THEN Len(rest)
            ELSE (CHOOSE i \in marks : \A m \in marks : i <= m) - 1
  IN SubSeq(rest, from, to)

\* the words that follow mark in a url
params(url, mark) ==
  { url[i + 1] : i \in { m \in 1..(Len(url) - 1) : url[m] = mark } }

\* The store serves a request: the store after it and the text it answers
\* with.  id is the id the store gives a document it creates.
serve(store, sent, id) ==
  LET path == path_of(sent.url)
      name == doc_root \o path
  IN
  IF sent.method = "DELETE"
  THEN [store |-> store_drop(store, name), reply |-> Text("json", jobject(<< >>))]
  ELSE IF sent.method = "PATCH"
  THEN LET old == IF name \in DOMAIN store THEN store[name] ELSE jobject(<< >>)
           upd == params(sent.url, "?updateMask.fieldPaths=")
           new == IF upd = {} THEN sent.body.v["fields"]
                  ELSE LET word == CHOOSE x \in upd : TRUE IN
                       IF has_field(sent.body.v["fields"], FieldPath(word))
                       THEN with_field(old, FieldPath(word),
                                       field_at(sent.body.v["fields"], FieldPath(word)))
                       ELSE without_field(old, FieldPath(word))
       IN [store |-> store_put(store, name, new),
           reply |-> Text("json", Resource(name, new))]
  ELSE IF path = << ":commit" >>
  THEN LET writes == sent.body.v["writes"]
           one == IF writes.k = "array" THEN writes.v[1] ELSE writes
           done == apply_write(store, one)
       IN [store |-> done.store,
           reply |-> Text("json",
             jobject([x \in {"writeResults", "commitTime"} |->
               IF x = "writeResults" THEN jarray(<< done.res >>)
               ELSE jstring(Zulu)]))]
  ELSE IF path = << ":batchGet" >>
  THEN LET doc == sent.body.v["documents"].v[1].v IN
       [store |-> store,
        reply |-> Text("json",
          jarray(<< jobject([x \in {IF doc \in DOMAIN store THEN "found" ELSE "missing",
                                    "readTime"} |->
                      IF x = "found" THEN Resource(doc, store[doc])
                      ELSE IF x = "missing" THEN jstring(doc)
                      ELSE jstring(Zulu)]) >>))]
  ELSE IF sent.method = "POST"
  THEN LET made == name \o << "/" >> \o id IN
       [store |-> store_put(store, made, sent.body.v["fields"]),
        reply |-> Text("json", Resource(made, sent.body.v["fields"]))]
  ELSE [store |-> store,
        reply |-> Text("json",
          member("documents",
            jarray([i \in 1..Len(in_order(DOMAIN store)) |->
                      Resource(in_order(DOMAIN store)[i],
                               store[in_order(DOMAIN store)[i]])])))]

\* ---------------------------------------------------------------------------
\* Chains of callbacks against the store, as the tests of the demo make
\* them: each callback makes the next call.
\*   value    the chain: which one, and the documents and numbers it uses
\*   script   the number of the call that is out
\*   wire     the transaction that is out, and the answer once it is there
\*   remote   the store
\*   decoded  the Results the callbacks have been given, in order

Coll == << "c" >>
NewId == << "n" >>
Old == member("z", jstring(Word))
Nest == jobject([x \in {"a", "m"} |->
          IF x = "a" THEN jnumber(1) ELSE member("a", jnumber(2))])
StoreDocs == Held \cup { Nest }

\* the value at a path of a document of the user, and the document with
\* another value there
RECURSIVE value_at(_, _)
value_at(doc, path) ==
  IF Len(path) = 1 THEN doc.v[Head(path)]
  ELSE value_at(doc.v[Head(path)], Tail(path))

RECURSIVE with_value(_, _, _)
with_value(doc, path, val) ==
  IF Len(path) = 1 THEN jobject(with(doc.v, Head(path), val))
  ELSE jobject(with(doc.v, Head(path),
                    with_value(doc.v[Head(path)], Tail(path), val)))

is_number_at(doc, path) ==
  /\ Head(path) \in DOMAIN doc.v
  /\ IF Len(path) = 1 THEN doc.v[Head(path)].k = "number"
     ELSE /\ doc.v[Head(path)].k = "object"
          /\ path[2] \in DOMAIN doc.v[Head(path)].v
          /\ doc.v[Head(path)].v[path[2]].k = "number"

Chain(name, doc, other, field, n, new_value) ==
  [name |-> name, doc |-> doc, other |-> other, field |-> field, n |-> n,
   new_value |-> new_value]

Chains ==
  UNION { { Chain("write-read-write-read", doc, other, "", 0, jnull) :
              other \in StoreDocs \ {doc} } : doc \in StoreDocs }
   \cup { Chain("write-del-read", doc, jnull, "", 0, jnull) : doc \in StoreDocs }
   \cup { Chain("add-read", doc, jnull, "", 0, jnull) : doc \in StoreDocs }
   \cup UNION { { Chain("write-inc-read", doc, jnull, field, n, jnull) :
                     doc \in { x \in StoreDocs : is_number_at(x, FieldPath(field)) },
                     n \in {1, 5} } : field \in {"a", "m.a"} }
   \cup { Chain("write-patch-read", doc, jnull, field, 0, new_value) :
            doc \in StoreDocs, field \in {"a", "b"}, new_value \in Leaves }

CallsOf(ch) ==
  IF ch.name = "write-read-write-read" THEN 4
  ELSE IF ch.name = "add-read" THEN 2
  ELSE 3

\* the call number k of the chain, made by the user (k = 1) or by the
\* callback that was given res
Call(ch, k, res) ==
  IF ch.name = "write-read-write-read"
  THEN << Ref_write(Path, ch.doc), Ref_read(Path),
          Ref_write(Path, ch.other), Ref_read(Path) >>[k]
  ELSE IF ch.name = "write-del-read"
  THEN << Ref_write(Path, ch.doc), Ref_del(Path), Ref_read(Path) >>[k]
  ELSE IF ch.name = "add-read"
  THEN IF k = 1 THEN Ref_add(Coll, ch.doc)
       ELSE Ref_read(Ref_child(Coll, res.added_id))
  ELSE IF ch.name = "write-inc-read"
  THEN << Ref_write(Path, ch.doc), Ref_inc(Path, ch.field, ch.n),
          Ref_read(Path) >>[k]
  ELSE << Ref_write(Path, ch.doc),
          Ref_patch(Path, ch.field, ch.new_value), Ref_read(Path) >>[k]

\* whether callback k goes on to the next call: the ones of testDelete and
\* the one of add assert that there was no error, the one of a read that
\* is followed by a write returns when get() fails
goes_on(ch, k, res) ==
  IF ch.name \in {"write-del-read", "add-read"}
  THEN res.err = 0 \/ build = "release"
  ELSE IF ch.name = "write-read-write-read" /\ k = 2
  THEN Result_get(res).ok
  ELSE TRUE

none == [text |-> "none", j |-> jnull]

StoreInit ==
  /\ otf = 0
  /\ on_the_fly_request = NoRequests
  /\ free_requests = << >>
  /\ next_request_unique_id = 0
  /\ common_chunk = 0
  /\ login_chunk = 0
  /\ msgq = << >>
  /\ token = 0
  /\ user_id = 0
  /\ stack = << >>
  /\ heap = Heap0
  /\ crashed = FALSE
  /\ ret = NoRet
  /\ pc = "user"
  /\ chain = Chain0
  /\ rq = Request0
  /\ twin = Request0
  /\ phase = "new"
  /\ remote \in { << >>, [x \in {Name} |-> asDocument(Old).v["fields"]] }
  /\ build \in {"debug", "release"}
  /\ script = 0
  /\ value \in Chains
  /\ wire = [rpc |-> jnull, reply |-> none]
  /\ decoded = << >>
  /\ cstep = "idle"

\* the user makes the first call of the chain
StoreCall ==
  /\ cstep = "idle"
  /\ wire' = [rpc |-> Call(value, 1, jnull), reply |-> none]
  /\ script' = 1
  /\ cstep' = "flying"
  /\ UNCHANGED << session, rq, twin, phase, value, decoded, build, remote >>

\* the store gets the request, applies it and answers
Serve ==
  /\ cstep = "flying"
  /\ LET r == serve(remote, Sent(wire.rpc), NewId) IN
     /\ remote' = r.store
     /\ wire' = [wire EXCEPT !.reply = r.reply]
  /\ cstep' = "received"
  /\ UNCHANGED << session, rq, twin, phase, value, decoded, build, script >>

\* update() finds the transaction complete: the Result, the adapter of the
\* operation, and the callback, which makes the next call of the chain
StoreDispatch ==
  /\ cstep = "received"
  /\ LET o == pre_cb(wire.rpc.label, Result_of(wire.reply)) IN
     /\ decoded' = Append(decoded, o)
     /\ IF o.k # "result" THEN
          /\ cstep' = "stopped"
          /\ UNCHANGED << wire, script >>
        ELSE IF script = CallsOf(value) THEN
          /\ cstep' = "done"
          /\ UNCHANGED << wire, script >>
        ELSE IF ~goes_on(value, script, o) THEN
          /\ cstep' = "stopped"
          /\ UNCHANGED << wire, script >>
        ELSE
          /\ wire' = [rpc |-> Call(value, script + 1, o), reply |-> none]
          /\ script' = script + 1
          /\ cstep' = "flying"
  /\ UNCHANGED << session, rq, twin, phase, value, build, remote >>

StoreNext == StoreCall \/ Serve \/ StoreDispatch

StoreSpec == StoreInit /\ [][StoreNext]_vars

\* C22: the chain write(doc) -> del -> read on one Ref does not stop before
\* its end, and the callback of the read is given err = ERR_DOC_MISSING and
\* an empty structured value, and get() on that Result returns false.
C22_DeleteThenRead ==
  value.name = "write-del-read" =>
    /\ cstep # "stopped"
    /\ cstep = "done" =>
         /\ Len(decoded) = 3
         /\ decoded[3].err = ERR_DOC_MISSING
         /\ decoded[3].j = jobject(<< >>)
         /\ ~Result_get(decoded[3]).ok

\* the chain of a document with a field has ended, the write and the del
\* without an error
C22_Witness ==
  /\ value.name = "write-del-read"
  /\ value.doc = member("a", jnumber(1))
  /\ cstep = "done"
  /\ decoded[1].err = 0
  /\ decoded[2].err = 0
  /\ decoded[3].err = ERR_DOC_MISSING

\* C23: a document written with write and read from the callback of the
\* write comes back equal to the original, and after a write of another
\* document the read gives that one and not the first; a document made with
\* add and read through child(added_id) of the collection comes back equal
\* to the original.  Neither chain stops before its end.
C23_ReadBackEqualsWritten ==
  /\ value.name \in {"write-read-write-read", "add-read"} => cstep # "stopped"
  /\ (value.name = "write-read-write-read" /\ Len(decoded) >= 2) =>
       /\ decoded[2].err = 0
       /\ decoded[2].j = value.doc
       /\ Result_get(decoded[2]) = [ok |-> TRUE, obj |-> value.doc]
  /\ (value.name = "write-read-write-read" /\ cstep = "done") =>
       /\ Len(decoded) = 4
       /\ decoded[4].err = 0
       /\ decoded[4].j = value.other
       /\ decoded[4].j # value.doc
  /\ (value.name = "add-read" /\ cstep = "done") =>
       /\ Len(decoded) = 2
       /\ decoded[1].added_id = NewId
       /\ wire.rpc = Ref_read(Coll \o << "/" >> \o NewId)
       /\ decoded[2].err = 0
       /\ decoded[2].j = value.doc

\* over a store that held another document, the nested document was
\* written and read, then the empty one, and both reads gave what was
\* written
C23_Witness ==
  /\ value.name = "write-read-write-read"
  /\ value.doc = Nest
  /\ value.other = jobject(<< >>)
  /\ cstep = "done"
  /\ decoded[2].j = Nest
  /\ decoded[4].j = jobject(<< >>)
  /\ remote = [x \in {Name} |-> jobject(<< >>)]

\* C24: after a write that set a numeric field to v, an inc of the field by
\* n from the callback of the write and a read from the callback of the
\* inc, the document read has v + n in the field and is the written one
\* everywhere else; the chain does not stop before its end.
C24_IncThenRead ==
  value.name = "write-inc-read" =>
    /\ cstep # "stopped"
    /\ cstep = "done" =>
         LET path == FieldPath(value.field)
             v == value_at(value.doc, path).v IN
         /\ Len(decoded) = 3
         /\ decoded[2] = Outcome(0, jnumber(v + value.n), << >>)
         /\ decoded[3].err = 0
         /\ value_at(decoded[3].j, path) = jnumber(v + value.n)
         /\ decoded[3].j = with_value(value.doc, path, jnumber(v + value.n))

\* the field a of the map m was written as 2, incremented by 5 and read as 7
C24_Witness ==
  /\ value.name = "write-inc-read"
  /\ value.field = "m.a"
  /\ value.n = 5
  /\ cstep = "done"
  /\ decoded[3].err = 0
  /\ decoded[3].j.v["m"].v["a"] = jnumber(7)
  /\ decoded[3].j.v["a"] = jnumber(1)

Person0 == [age |-> 32, name |-> << "j", "o", "h", "n" >>]
Person(new_age, new_name) == [age |-> new_age, name |-> new_name]

\* json::value(key, default_value) where the default is of type k: the
\* member converted, the default when there is none; it throws on a value
\* that is no object and on a member of another type
json_value(j, key, k, default_value) ==
  IF j.k # "object" THEN raised("type_error.306")
  ELSE IF key \notin DOMAIN j.v THEN [k |-> "converted", v |-> default_value]
  ELSE IF j.v[key].k # k THEN raised("type_error.302")
  ELSE [k |-> "converted", v |-> j.v[key].v]

\* from_json(j, p) of the demo: name, then age
from_json(j, p) ==
  LET name == json_value(j, "name", "string", p.name)
      age == json_value(j, "age", "number", p.age)
  IN IF name.k # "converted" THEN name
     ELSE IF age.k # "converted" THEN age
     ELSE [k |-> "converted", v |-> Person(age.v, name.v)]

\* j.get<Person>(): from_json into a Person()
json_get(j) == from_json(j, Person0)

\* a get that looks at the error code of a missing document only
Result_get_into_missing_only(res, obj) ==
  IF res.err = ERR_DOC_MISSING THEN [k |-> "returned", ok |-> FALSE, obj |-> obj]
  ELSE LET got == json_get(res.j) IN
       IF got.k = "converted"
       THEN [k |-> "returned", ok |-> TRUE, obj |-> got.v]
       ELSE [k |-> "raised", ok |-> FALSE, obj |-> obj]

\* Result::get(obj): what the call does (it returns, or the conversion
\* throws), what it returns, and obj afterwards
Result_get_into(res, obj) ==
  IF res.err # 0 THEN [k |-> "returned", ok |-> FALSE, obj |-> obj]
  ELSE LET got == json_get(res.j) IN
       IF got.k = "converted"
       THEN [k |-> "returned", ok |-> TRUE, obj |-> got.v]
       ELSE [k |-> "raised", ok |-> FALSE, obj |-> obj]

\* Results a callback is handed, and the objects it has ready for get
GetErrs == { 0 - 1, 0, ERR_DOC_MISSING, ERR_AUTH_EMAIL_NOT_FOUND }
GetValues ==
  { jnull, jobject(<< >>), jstring(<< "h", "i" >>),
    jarray(<< member("age", jnumber(1)) >>),
    member("age", jnumber(1)),
    member("name", jstring(<< "h", "i" >>)),
    member("age", jstring(<< "h", "i" >>)),
    member("name", jnumber(1)),
    jobject([x \in {"age", "name"} |->
               IF x = "age" THEN jnumber(99) ELSE jstring(<< "j", "o" >>)]),
    jobject([x \in {"age", "city"} |->
               IF x = "age" THEN jnumber(1) ELSE jstring(<< "h", "i" >>)]) }
GetObjects == { Person0, Person(99, << "h", "i" >>) }

GetInit ==
  /\ otf = 0
  /\ on_the_fly_request = NoRequests
  /\ free_requests = << >>
  /\ next_request_unique_id = 0
  /\ common_chunk = 0
  /\ login_chunk = 0
  /\ msgq = << >>
  /\ token = 0
  /\ user_id = 0
  /\ stack = << >>
  /\ heap = Heap0
  /\ crashed = FALSE
  /\ ret = NoRet
  /\ pc = "user"
  /\ chain = Chain0
  /\ rq = Request0
  /\ twin = Request0
  /\ phase = "new"
  /\ remote = << >>
  /\ build = "debug"
  /\ script \in GetObjects
  /\ value \in { Outcome(err, j, << >>) : err \in GetErrs, j \in GetValues }
  /\ wire = jnull
  /\ decoded = [k |-> "none", ok |-> FALSE, obj |-> script]
  /\ cstep = "callback"

\* the callback calls result.get(obj), obj being script
Get ==
  /\ cstep = "callback"
  /\ decoded' = Result_get_into(value, script)
  /\ cstep' = "got"
  /\ UNCHANGED << session, rq, twin, phase, value, wire, build, remote, script >>

GetNext == Get

GetSpec == GetInit /\ [][GetNext]_vars

\* C31 as it is worded: get returns true, with obj converted from the
\* structured value, exactly when err = 0, and returns false with obj as it
\* was for every other err.
C31_GetIffNoError ==
  cstep = "got" =>
    IF value.err = 0
    THEN decoded.k = "returned" /\ decoded.ok /\ decoded.obj = json_get(value.j).v
    ELSE decoded.k = "returned" /\ ~decoded.ok /\ decoded.obj = script

\* C31, amended: for every err other than 0, ERR_DOC_MISSING among them, get
\* returns false and leaves obj as it was; for err = 0 it never returns
\* false: it returns true with obj converted from the structured value, or
\* the conversion throws out of get and obj is as it was.  So get returns
\* true only when err = 0.
C31_GetReturnsTrueOnlyWithoutError ==
  cstep = "got" =>
    /\ value.err # 0 =>
         decoded.k = "returned" /\ ~decoded.ok /\ decoded.obj = script
    /\ value.err = 0 =>
         \/ /\ decoded.k = "returned"
            /\ decoded.ok
            /\ json_get(value.j).k = "converted"
            /\ decoded.obj = json_get(value.j).v
         \/ /\ decoded.k = "raised"
            /\ decoded.obj = script
    /\ (decoded.k = "returned" /\ decoded.ok) => value.err = 0

\* get returned false for a missing document whose Result holds an object
\* that would convert, and left the Person it was given
C31_Witness ==
  /\ cstep = "got"
  /\ value.err = ERR_DOC_MISSING
  /\ value.j = member("age", jnumber(1))
  /\ script = Person(99, << "h", "i" >>)
  /\ decoded = [k |-> "returned", ok |-> FALSE, obj |-> script]

\* ---------------------------------------------------------------------------
\* C32: a call of update() that returns, returns true exactly when it
\* dispatched at least one completion: a call that returns true returns from
\* a callback it invoked (its frame leaves the stack), and a call that
\* returns false has invoked none and has left the in-flight map, the free
\* list and the callback counts as they were; without a pool update() returns
\* false.
C32_UpdateReturnsWorkDone ==
  [][ (ret' # NoRet /\ ret'.op = "update" /\ (ret' # ret \/ stack' # stack)) =>
        /\ ret'.val = 1 <=> Len(stack') = Len(stack) - 1
        /\ ret'.val = 0 <=> (/\ stack' = stack
                           /\ free_requests' = free_requests
                           /\ DOMAIN on_the_fly_request' = DOMAIN on_the_fly_request)
        /\ otf = 0 /\ stack = << >> => ret'.val = 0 ]_vars

\* an update() has returned true to the top level after its callback, and the
\* object of the transaction it dispatched is on the free list
C32_Witness ==
  /\ ret = Returned("update", 1)
  /\ stack = << >>
  /\ otf # 0
  /\ free_requests # << >>
  /\ on_the_fly_request # NoRequests

\* ---------------------------------------------------------------------------
\* C33: polls made inside a callback.  For a callback that is running and
\* every poll nested in it: the nested poll dispatches another transaction
\* on another object, the transaction of the outer callback is neither in the
\* in-flight map nor in the transport's message queue, and its object is not
\* on the free list; each running callback was invoked once; and every object
\* the pool allocated is in exactly one place (owned by one in-flight
\* transaction, or held by one running callback, or once on the free list),
\* whatever the depth of the polls, so also when the outer poll resumes.
C33_ReentrantPolling ==
  /\ \A i, j \in 1..Len(stack) :
       i < j =>
         /\ stack[j].curl # stack[i].curl
         /\ stack[j].r.obj # stack[i].r.obj
  /\ \A i \in 1..Len(stack) :
       /\ stack[i].curl \notin DOMAIN on_the_fly_request
       /\ stack[i].curl \notin Range(msgq)
       /\ stack[i].r.obj \notin Range(free_requests)
       /\ stack[i].r.cb = 1
  /\ Cardinality(DOMAIN on_the_fly_request) + Len(stack) + Len(free_requests)
       = heap.objs
  /\ Cardinality({ on_the_fly_request[h].obj : h \in DOMAIN on_the_fly_request }
                 \cup { stack[i].r.obj : i \in 1..Len(stack) }
                 \cup Range(free_requests)) = heap.objs

\* the callback of a login is running and a poll it made has invoked the
\* callback of a second transaction, which has its own object
C33_Witness ==
  /\ Len(stack) = 2
  /\ stack[1].r.flags = RPC_FLAG_CONNECT
  /\ stack[2].curl # stack[1].curl
  /\ stack[2].r.obj # stack[1].r.obj
  /\ heap.objs = 2

\* ---------------------------------------------------------------------------
\* Teardown.  The calls of Spec, where pc tells whether the last disconnect()
\* found transactions in flight ("torn") until the session is configured
\* again.
TeardownConfigure ==
  /\ ~crashed
  /\ Assign([configure(World) EXCEPT !.ret = NoRet])
  /\ pc' = "user"

TeardownDisconnect ==
  /\ ~crashed
  /\ Assign([disconnect(World) EXCEPT !.ret = NoRet])
  /\ pc' = IF otf # 0 /\ DOMAIN on_the_fly_request # {} THEN "torn"
           ELSE IF otf # 0 THEN "user" ELSE pc

TeardownNext ==
  \/ TeardownConfigure
  \/ TeardownDisconnect
  \/ Submit
  \/ Connect
  \/ Update
  \/ UpdatePerformFails
  \/ UpdateUseAfterFree
  \/ CallbackReturn
  \/ CallbackReturnCrash
  \/ CallbackReturnStale
  \/ CallbackReturnAliased

TeardownSpec == Init /\ [][TeardownNext]_vars

\* a step that invokes a callback: a frame is pushed, or the callback that
\* returns gives way to the next
Invokes ==
  /\ stack' # << >>
  /\ stack'[Len(stack')].this = "live"
  /\ \/ Len(stack') > Len(stack)
     \/ /\ Len(stack') = Len(stack)
        /\ \/ Top.this = "dead"
           \/ stack'[Len(stack')].curl # Top.curl

\* C34: a disconnect() that finds transactions in flight invokes no callback
\* (no frame is pushed) and leaves no transaction in the in-flight map, no
\* completion message in the transport and no object on the free list; as
\* long as the session has no pool no callback is invoked; and whenever a
\* callback is invoked, it is that of a transaction that was in the in-flight
\* map of the present pool, so never one that a teardown removed.  (A step
\* that ends the process is no teardown: nothing runs after it.)
C34_TeardownInvokesNoCallback ==
  [][ /\ (otf # 0 /\ otf' = 0 /\ ~crashed') =>
           /\ ~Invokes
           /\ Len(stack') = Len(stack)
           /\ on_the_fly_request' = NoRequests
           /\ msgq' = << >>
           /\ free_requests' = << >>
           /\ heap' = Heap0
      /\ pc' = "torn" => otf' = 0 /\ on_the_fly_request' = NoRequests /\ msgq' = << >>
      /\ otf = 0 => ~Invokes
      /\ Invokes =>
           /\ otf # 0
           /\ stack'[Len(stack')].curl \in DOMAIN on_the_fly_request
           /\ stack'[Len(stack')].r.cb = 1
           /\ stack'[Len(stack')].curl \notin DOMAIN on_the_fly_request' ]_vars

\* disconnect() was called at top level with transactions in flight, and the
\* session has not been configured since
C34_Witness ==
  /\ pc = "torn"
  /\ otf = 0
  /\ stack = << >>
  /\ on_the_fly_request = NoRequests
  /\ ~crashed

\* ---------------------------------------------------------------------------
\* C35: an update() call on a pool that returns false has invoked no callback
\* and has changed nothing: the stack of running callbacks, the in-flight map
\* (the state of every transfer included), the free list, the completions
\* the transport has queued and the objects allocated are as they were.  The
\* call whose curl_multi_perform fails is such a call, whatever is queued.
C35_FailedPerformChangesNothing ==
  [][ (otf # 0 /\ ret' = Returned("update", 0)) =>
        UNCHANGED << otf, on_the_fly_request, free_requests, msgq, stack, heap,
                     next_request_unique_id, common_chunk, login_chunk, token,
                     user_id, crashed >> ]_vars

\* a poll made inside a callback has returned false although a completion is
\* queued in the transport: its curl_multi_perform failed
C35_Witness ==
  /\ ret = Returned("update", 0)
  /\ otf # 0
  /\ msgq # << >>
  /\ Len(stack) = 1
  /\ msgq[1] \in DOMAIN on_the_fly_request
  /\ on_the_fly_request[msgq[1]].cb = 0

\* ---------------------------------------------------------------------------
\* The body of one request, pulled by the transport.  script is the dumped
\* body (str_sent, of which rq keeps the length), decoded what the transport
\* has been handed: the bytes of all calls on end, and of the last call the
\* room it offered, the offset it found and the count it was returned.

\* memcpy(buffer, str_sent.data() + send_offset, bytes_to_send)
memcpy(str_sent, send_offset, bytes_to_send) ==
  SubSeq(str_sent, send_offset + 1, send_offset + bytes_to_send)

SendBodies == UNION { [1..n -> {"a", "b"}] : n \in 0..MaxBody }

SendInit ==
  /\ otf = 0
  /\ on_the_fly_request = NoRequests
  /\ free_requests = << >>
  /\ next_request_unique_id = 0
  /\ common_chunk = 0
  /\ login_chunk = 0
  /\ msgq = << >>
  /\ token = 0
  /\ user_id = 0
  /\ stack = << >>
  /\ heap = Heap0
  /\ crashed = FALSE
  /\ ret = NoRet
  /\ pc = "user"
  /\ chain = Chain0
  /\ twin = Request0
  /\ phase = "registered"
  /\ remote = << >>
  /\ build = "debug"
  /\ script \in SendBodies
  /\ rq = allocRequest_init(Request0, Len(script), RPC_FLAG_PATCH, "user")
  /\ value = jnull
  /\ wire = jnull
  /\ decoded = [sent |-> << >>, room |-> 0, from |-> 0, bytes |-> 0, pulls |-> 0]
  /\ cstep = "send"

\* the transport calls CurlReadFromRequest with a buffer of size * nitems bytes
SendPull ==
  /\ decoded.pulls < MaxPulls
  /\ \E num_bytes \in 0..MaxBody + 1 :
       LET got == CurlReadFromRequest(rq, num_bytes) IN
       /\ rq' = got.r
       /\ decoded' = [sent |-> decoded.sent \o memcpy(script, rq.send_offset, got.bytes),
                      room |-> num_bytes,
                      from |-> rq.send_offset,
                      bytes |-> got.bytes,
                      pulls |-> decoded.pulls + 1]
  /\ UNCHANGED << session, twin, phase, value, wire, cstep, build, remote, script >>

SendNext == SendPull

SendSpec == SendInit /\ [][SendNext]_vars

\* C36: after any calls of the transport with any buffer sizes, the send
\* offset is between 0 and the length of the body and is not below the offset
\* the last call found; the last call returned the smaller of the room it was
\* offered and the bytes that remained, and moved the offset by that count;
\* the bytes of all calls on end are the first send_offset bytes of the body
\* (so the whole body, once, when the offset has reached its length); and a
\* call that found the whole body sent returned 0.
C36_StreamingSend ==
  /\ rq.send_offset >= 0
  /\ rq.send_offset <= Len(script)
  /\ rq.send_offset >= decoded.from
  /\ rq.send_offset = decoded.from + decoded.bytes
  /\ decoded.bytes = IF decoded.room < Len(script) - decoded.from
                     THEN decoded.room ELSE Len(script) - decoded.from
  /\ decoded.sent = SubSeq(script, 1, rq.send_offset)
  /\ rq.send_offset = Len(script) => decoded.sent = script
  /\ decoded.from = Len(script) => decoded.bytes = 0
  /\ rq.str_sent = Len(script)

\* a body of two bytes was pulled one byte at a time; a third call, offered
\* room, found it sent and returned 0
C36_Witness ==
  /\ Len(script) = 2
  /\ script[1] # script[2]
  /\ decoded.pulls = 3
  /\ decoded.from = 2
  /\ decoded.room = 1
  /\ decoded.bytes = 0
  /\ decoded.sent = script

\* ---------------------------------------------------------------------------
\* C37: a submit allocates an object only when the free list is empty, and
\* then every object the pool has allocated, the new one included, belongs to
\* a transaction that is in flight or whose callback is running; a submit
\* that finds the free list not empty allocates nothing and takes the object
\* freed last; nothing but a submit allocates; and at no time are more
\* transactions live than objects were allocated.  So the count of allocated
\* objects is the largest count of transactions that were live at one time.
\* (The end of the process takes every object with it.)
C37_AllocatedEqualsPeakLive ==
  [][ /\ (heap'.objs # heap.objs /\ ~crashed') =>
           /\ heap'.objs = heap.objs + 1
           /\ ret'.op = "allocRequest"
           /\ free_requests = << >>
           /\ free_requests' = << >>
           /\ heap'.objs = Cardinality(DOMAIN on_the_fly_request') + Len(stack')
      /\ (ret'.op = "allocRequest" /\ otf # 0 /\ free_requests # << >>) =>
           /\ heap'.objs = heap.objs
           /\ free_requests' = SubSeq(free_requests, 1, Len(free_requests) - 1)
           /\ on_the_fly_request'[ret'.val].obj = free_requests[Len(free_requests)]
      /\ Cardinality(DOMAIN on_the_fly_request') + Len(stack') <= heap'.objs
      /\ heap'.peak <= heap'.objs ]_vars

\* two objects were on the free list and a submit has taken one of them,
\* allocating nothing
C37_Witness ==
  /\ ret = Returned("allocRequest", 3)
  /\ heap.objs = 2
  /\ Len(free_requests) = 1
  /\ Cardinality(DOMAIN on_the_fly_request) = 1
  /\ stack = << >>
  /\ on_the_fly_request[3].obj # free_requests[1]

\* ---------------------------------------------------------------------------
\* The ids of one Request object and of the Result it holds.

\* Result(): the members take their initialisers; member_init is that of
\* req_unique_id, a constant of the header (0 when the member has none: the
\* Result is value-initialised)
Result(member_init) ==
  [req_unique_id |-> member_init, err |-> 0 - 1, str |-> << >>, j |-> JNull,
   added_id |-> 0]

\* newRequest, lines 161-163: the Request and its Result are given the id
newRequest_ids(r, id) ==
  [r EXCEPT !.req_unique_id = id, !.result.req_unique_id = id]

\* allocRequest, line 285, run on what newRequest returned: r->result = Result()
allocRequest_result(r, member_init) == [r EXCEPT !.result = Result(member_init)]

\* value is the initialiser of Result::req_unique_id; decoded holds the
\* pool's counter, the id the last submit on the object returned, and the id
\* the callback read in the Result it was handed
IdInit ==
  /\ otf = 0
  /\ on_the_fly_request = NoRequests
  /\ free_requests = << >>
  /\ next_request_unique_id = 0
  /\ common_chunk = 0
  /\ login_chunk = 0
  /\ msgq = << >>
  /\ token = 0
  /\ user_id = 0
  /\ stack = << >>
  /\ heap = Heap0
  /\ crashed = FALSE
  /\ ret = NoRet
  /\ pc = "user"
  /\ chain = Chain0
  /\ twin = Request0
  /\ phase = "new"
  /\ remote = << >>
  /\ build = "debug"
  /\ script = << >>
  /\ value \in 0..MaxSubmits
  /\ rq = [req_unique_id |-> 0, result |-> Result(value)]
  /\ wire = jnull
  /\ decoded = [next_request_unique_id |-> 0, returned |-> 0, seen |-> 0]
  /\ cstep = "ids"

\* a submit that is given another object of the pool
IdOther ==
  /\ decoded.next_request_unique_id < MaxSubmits
  /\ decoded' = [decoded EXCEPT !.next_request_unique_id = @ + 1]
  /\ UNCHANGED << session, rq, twin, phase, value, wire, cstep, build, remote,
                  script >>

\* a submit that is given the object, new or from the free list
IdSubmit ==
  /\ phase \in {"new", "pooled"}
  /\ decoded.next_request_unique_id < MaxSubmits
  /\ LET id == decoded.next_request_unique_id + 1
         r == allocRequest_result(newRequest_ids(rq, id), value) IN
     /\ rq' = r
     /\ decoded' = [decoded EXCEPT !.next_request_unique_id = id,
                                   !.returned = r.req_unique_id]
  /\ phase' = "registered"
  /\ UNCHANGED << session, twin, value, wire, cstep, build, remote, script >>

\* update() dispatches the transaction: err is set and r->callback(r->result)
IdDispatch ==
  /\ phase = "registered"
  /\ \E err \in {0 - 1, 0} :
       /\ rq' = [rq EXCEPT !.result.err = err]
       /\ decoded' = [decoded EXCEPT !.seen = rq.result.req_unique_id]
  /\ phase' = "callback"
  /\ UNCHANGED << session, twin, value, wire, cstep, build, remote, script >>

\* the callback returns and the object goes to the free list
IdReturn ==
  /\ phase = "callback"
  /\ phase' = "pooled"
  /\ UNCHANGED << session, rq, twin, value, wire, decoded, cstep, build,
                  remote, script >>

IdNext ==
  \/ IdOther
  \/ IdSubmit
  \/ IdDispatch
  \/ IdReturn

IdSpec == IdInit /\ [][IdNext]_vars

\* C38: while the callback of a transaction runs, the id in the Result it was
\* handed is the unique id of the transaction, the value its submit returned.
C38_ResultCarriesId ==
  phase = "callback" =>
    /\ rq.req_unique_id = decoded.returned
    /\ rq.result.req_unique_id = rq.req_unique_id
    /\ decoded.seen = decoded.returned

\* ---------------------------------------------------------------------------
\* Paths.  A path is the sequence of its characters, '/' the separator.

\* Ref::id: the id as a string value, or the assert of idFromPath
Ref_id(doc_id) == idFromPath(doc_id)

\* A Ref is kept as [k |-> "ref", v |-> its path]; an assert that failed
\* ends the program and there is no Ref.
ref(path) == [k |-> "ref", v |-> path]

\* r.child(subpath)
child(r, subpath) ==
  IF r.k # "ref" THEN r
  ELSE IF subpath = << >> /\ build = "debug" THEN Ref_child(r.v, subpath)
  ELSE ref(Ref_child(r.v, subpath))

\* r.id()
id_of(r) == IF r.k # "ref" THEN r ELSE Ref_id(r.v)

PathTexts == UNION { [1..n -> {"a", "b", "/"}] : n \in 0..MaxPath }

\* script is the path of a Ref, value and wire are two subpaths
PathInit ==
  /\ otf = 0
  /\ on_the_fly_request = NoRequests
  /\ free_requests = << >>
  /\ next_request_unique_id = 0
  /\ common_chunk = 0
  /\ login_chunk = 0
  /\ msgq = << >>
  /\ token = 0
  /\ user_id = 0
  /\ stack = << >>
  /\ heap = Heap0
  /\ crashed = FALSE
  /\ ret = NoRet
  /\ pc = "user"
  /\ chain = Chain0
  /\ rq = Request0
  /\ twin = Request0
  /\ phase = "new"
  /\ remote = << >>
  /\ build \in {"debug", "release"}
  /\ script \in PathTexts
  /\ value \in PathTexts
  /\ wire \in PathTexts
  /\ decoded = [k |-> "none"]
  /\ cstep = "paths"

\* ref(script).child(value), .child(value).child(wire),
\* .child(value + "/" + wire), .child(value).id() and
\* splitParentAndId(script)
PathCalls ==
  /\ cstep = "paths"
  /\ decoded' = [k |-> "paths",
                 child |-> child(ref(script), value),
                 grandchild |-> child(child(ref(script), value), wire),
                 joined |-> child(ref(script), value \o << "/" >> \o wire),
                 id |-> id_of(child(ref(script), value)),
                 split |-> splitParentAndId(script)]
  /\ cstep' = "called"
  /\ UNCHANGED << session, rq, twin, phase, value, wire, build, remote, script >>

PathNext == PathCalls

PathSpec == PathInit /\ [][PathNext]_vars

\* C39: child(s) of a Ref with path p has path p + "/" + s (the assert on an
\* empty s apart, which ends a debug build); child(a).child(b) has the path
\* of child(a + "/" + b); for s without '/', child(s).id() is s; and
\* splitParentAndId(p) gives (parent, id) with parent + "/" + id = p and no
\* '/' in id when p has a '/', and (empty, p) when it has none.
C39_PathAlgebra ==
  cstep = "called" =>
    /\ IF value = << >> /\ build = "debug"
       THEN decoded.child = aborted("!subpath.empty()")
       ELSE decoded.child = ref(script \o << "/" >> \o value)
    /\ (value # << >> /\ wire # << >>) \/ build = "release" =>
         /\ decoded.grandchild = decoded.joined
         /\ decoded.grandchild = ref(script \o << "/" >> \o value \o << "/" >> \o wire)
    /\ (Slashes(value) = {} /\ (value # << >> \/ build = "release")) =>
         decoded.id = jstring(value)
    /\ IF Slashes(script) # {}
       THEN /\ decoded.split.path \o << "/" >> \o decoded.split.id = script
            /\ Slashes(decoded.split.id) = {}
       ELSE decoded.split = [path |-> << >>, id |-> script]

\* child("a").child("b") and child("a/b") of the Ref "b/" are both
\* "b//a/b", child("a").id() is "a", and the path "b/" splits into "b" and
\* the empty id
C39_Witness ==
  /\ cstep = "called"
  /\ build = "debug"
  /\ script = << "b", "/" >>
  /\ value = << "a" >>
  /\ wire = << "b" >>
  /\ decoded.grandchild = ref(<< "b", "/", "/", "a", "/", "b" >>)
  /\ decoded.joined = decoded.grandchild
  /\ decoded.id = jstring(<< "a" >>)
  /\ decoded.split = [path |-> << "b" >>, id |-> << >>]

\* ---------------------------------------------------------------------------
\* The url and the header list of a submit.  value is what a call hands to
\* allocRequest, phase tells whether a login has stored a token.

UrlDocs ==
  { << "c", "/", "d" >>, << "c", "/", "d", "/", "e", "/", "f" >> }

UrlCalls ==
  UNION { { Ref_read(doc), Ref_del(doc), Ref_write(doc, Old),
            Ref_inc(doc, "a", 1), Ref_patch(doc, "a", jnumber(1)),
            Rpc(doc, jnull, "list", RPC_FLAG_GET) } : doc \in UrlDocs }
  \cup { Ref_add(coll, Old) : coll \in Collections }
  \cup { Ref_query(coll, [conditions |-> << >>, order_by |-> << >>,
                          first |-> 0, limit |-> limit]) :
           coll \in Collections, limit \in {0 - 1, 1} }
  \cup { Rpc(<< url_base, "?key=", "k" >>, member("email", jstring(Word)),
             "connect", flags) :
           url_base \in {"https://signInWithPassword", "https://signUp"},
           flags \in {RPC_FLAG_CONNECT, RPC_FLAG_CONNECT + RPC_FLAG_TRACE} }
  \cup { Rpc(url_suffix, jnull, "raw", flags) :
           url_suffix \in { << >>, << ":" >>, << "c", ":commit" >> },
           flags \in {0, RPC_FLAG_TRACE, RPC_FLAG_CONNECT} }

UrlInit ==
  /\ otf = 0
  /\ on_the_fly_request = NoRequests
  /\ free_requests = << >>
  /\ next_request_unique_id = 0
  /\ common_chunk = 0
  /\ login_chunk = 0
  /\ msgq = << >>
  /\ token = 0
  /\ user_id = 0
  /\ stack = << >>
  /\ heap = Heap0
  /\ crashed = FALSE
  /\ ret = NoRet
  /\ pc = "user"
  /\ chain = Chain0
  /\ rq = Request0
  /\ twin = Request0
  /\ phase \in {"anonymous", "signed in"}
  /\ remote = << >>
  /\ build = "debug"
  /\ script = << >>
  /\ value \in UrlCalls
  /\ wire = jnull
  /\ decoded = [k |-> "none"]
  /\ cstep = "call"

\* the first submit of a session that was configured and, when signed in,
\* was given a token: the url of the transaction and the header list
\* registerRequest prepares it with
UrlSubmit ==
  /\ cstep = "call"
  /\ LET w0 == configure(World)
         w1 == IF phase = "signed in" THEN Firestore_setToken(w0, 1) ELSE w0
         w2 == allocRequest(w1, value.flags)
         id == w2.ret.val IN
     decoded' = [k |-> "submitted",
                 url |-> Sent(value).url,
                 returned |-> id,
                 chunk |-> w2.on_the_fly_request[id].chunk,
                 tok |-> w2.on_the_fly_request[id].tok]
  /\ cstep' = "submitted"
  /\ UNCHANGED << session, rq, twin, phase, value, wire, build, remote, script >>

UrlNext == UrlSubmit

UrlSpec == UrlInit /\ [][UrlNext]_vars

\* C40: the url of a transaction without the connect flag is the base url,
\* then "/" unless the suffix begins with ':', then the suffix, and its
\* header list is the shared one (none as long as no token was set); the url
\* of a transaction with the connect flag is the suffix as it is, and its
\* header list is the login one.  So ":commit", ":batchGet" and the
\* ":runQuery" of a top-level collection follow the base url directly, and
\* the query of a sub-collection c/d/e goes to base + "/c/d:runQuery".
C40_UrlComposition ==
  cstep = "submitted" =>
    /\ IF (value.flags \div 4) % 2 = 1
       THEN /\ decoded.url = value.url_suffix
            /\ decoded.chunk = "login"
            /\ decoded.tok = 0
       ELSE /\ decoded.url[1] = "https://documents"
            /\ IF value.url_suffix # << >> /\ value.url_suffix[1] \in Colon
               THEN SubSeq(decoded.url, 2, Len(decoded.url)) = value.url_suffix
               ELSE /\ decoded.url[2] = "/"
                    /\ SubSeq(decoded.url, 3, Len(decoded.url)) = value.url_suffix
            /\ decoded.chunk = IF phase = "signed in" THEN "common" ELSE "null"
            /\ decoded.tok = IF phase = "signed in" THEN 1 ELSE 0
    /\ value.label \in {"read", "write", "inc"} =>
         /\ Len(decoded.url) = 2
         /\ decoded.url[2] \in {":batchGet", ":commit"}
    /\ value.label = "query" =>
         decoded.url \in { << "https://documents", ":runQuery" >>,
                           << "https://documents", "/", "c", "/", "d", ":runQuery" >> }
    /\ value.label \in {"del", "add", "list", "patch"} => decoded.url[2] = "/"

\* the query of a top-level collection, submitted by a session that is
\* signed in, goes to the base url followed by ":runQuery" with the shared
\* header list
C40_Witness ==
  /\ cstep = "submitted"
  /\ phase = "signed in"
  /\ value.label = "query"
  /\ decoded.url = << "https://documents", ":runQuery" >>
  /\ decoded.chunk = "common"
  /\ decoded.returned = 1

====
